---------------------------- MODULE Spec2Model ----------------------------
(***************************************************************************)
(* A model of vedo.applications.Animation (src/vedo/applications.py): the  *)
(* event scheduler that books timed visual transitions and replays them.   *)
(*                                                                         *)
(* Numbers.  Times (start times, durations, time_resolution, eps) are      *)
(* integers counting units of 1e-5 s, so eps = 0.00001 is 1 and the        *)
(* default time_resolution 0.02 is 2000.  Payload values (alpha, colour    *)
(* channels, ...) are exact rationals <<n, d>> in lowest terms with d > 0. *)
(* Python computes both in binary floating point; the model computes the   *)
(* same expressions exactly, so it says nothing about rounding error.      *)
(*                                                                         *)
(* Optional arguments.  A Python argument that may be None is a sequence   *)
(* of length at most one: <<>> is None and <<v>> is the value v.           *)
(***************************************************************************)
EXTENDS Integers, Sequences, FiniteSets, TLC

(***************************************************************************)
(* Bounds of the model.                                                    *)
(***************************************************************************)
\* declaration calls made on one scheduler
MaxCalls == 2
\* declaration calls made on one scheduler that uses every transition
MaxCallsAll == 1
\* play() calls made on one scheduler
MaxPlays == 2
\* calls of _parse in the specification that exercises _parse alone
MaxParseCalls == 1
\* largest start time given to _parse alone, in quarters of a time step
MaxQuarters == 7
\* longest Event list whose permutations are enumerated
MaxPermLen == 4
\* the largest max_value of a player's frame range
MaxFrame == 3
\* declaration calls made on a scheduler that uses switch_on and switch_off
MaxGapCalls == 2
\* the latest start time given to switch_on and switch_off, in half time steps
MaxGapHalves == 6
\* the slides of a Browser: up to 4
MaxSlides == 4
\* the landmarks picked on one mesh of a morph plotter: up to 4
MaxPicks == 4
\* the points a pick can return: 1 and 2
MaxPoint == 2

(***************************************************************************)
(* Program constants, in units of 1e-5 s.                                  *)
(***************************************************************************)
\* self.eps = 0.00001
eps == 1
\* time_resolution=0.02, the constructor's default
DefaultResolution == 2000
\* a time resolution of 1.0
UnitResolution == 100000

\* the time resolutions a scheduler is constructed with
Resolutions == {DefaultResolution, UnitResolution}

(***************************************************************************)
(* Exact rational arithmetic, standing for Python's float arithmetic.      *)
(***************************************************************************)
Abs(x) == IF x < 0 THEN -x ELSE x

RECURSIVE Gcd(_, _)
Gcd(a, b) == IF b = 0 THEN a ELSE Gcd(b, a % b)

\* the rational n/d (d # 0) in lowest terms with a positive denominator
Rat(n, d) ==
    LET g == Gcd(Abs(n), Abs(d))
        s == IF d < 0 THEN -1 ELSE 1
    IN  <<(s * n) \div g, (s * d) \div g>>

Zero == <<0, 1>>
One == <<1, 1>>

RatAdd(p, q) == Rat(p[1] * q[2] + q[1] * p[2], p[2] * q[2])
RatSub(p, q) == Rat(p[1] * q[2] - q[1] * p[2], p[2] * q[2])
RatMul(p, q) == Rat(p[1] * q[1], p[2] * q[2])
RatLeq(p, q) == p[1] * q[2] <= q[1] * p[2]
RatLess(p, q) == p[1] * q[2] < q[1] * p[2]

\* Python's int(a / b) for b > 0: truncation toward zero
IntTrunc(a, b) == IF a >= 0 THEN a \div b ELSE -((-a) \div b)

(***************************************************************************)
(* vedo.utils.lin_interpolate(x, rangeX, rangeY) for a scalar x: the       *)
(* linear map of rangeX = [x0, x1] onto rangeY = [y0, y1],                 *)
(* y0 * (1 - s) + y1 * s with s = (x - x0) / (x1 - x0); an empty range     *)
(* (x1 = x0) yields the start value y0.                                    *)
(***************************************************************************)
lin_interpolate(x, x0, x1, y0, y1) ==
    LET dx == x1 - x0
    IN  IF dx = 0 THEN y0
        ELSE LET s == Rat(x - x0, dx)
             IN  RatAdd(RatMul(y0, RatSub(One, s)), RatMul(y1, s))

\* vedo.colors.get_color(c) for a colour name: its RGB triple
get_color(c) ==
    CASE c = "red" -> <<One, Zero, Zero>>
      [] c = "white" -> <<One, One, One>>
      [] OTHER -> <<Zero, Zero, Zero>>

(***************************************************************************)
(* The scene objects the scheduler borrows.                                *)
(***************************************************************************)
ObjIds == {"A", "B"}

\* each object's visual properties right after it was constructed; A has a
\* backface property, B has none (backcolor <<>>)
InitProps(a0) ==
    [o \in ObjIds |->
        [alpha |-> IF o = "A" THEN a0 ELSE One,
         color |-> IF o = "A" THEN <<Zero, Zero, One>> ELSE <<Zero, One, Zero>>,
         backcolor |-> IF o = "A" THEN <<<<One, One, One>>>> ELSE <<>>,
         wireframe |-> FALSE,
         lw |-> IF o = "A" THEN Zero ELSE One,
         linecolor |-> <<Zero, Zero, Zero>>,
         lighting |-> <<Zero, One, Zero, One>>,
         pos |-> IF o = "A" THEN <<Zero, Zero, Zero>> ELSE <<One, Zero, Zero>>,
         rotation |-> [x |-> Zero, y |-> Zero, z |-> Zero],
         scale |-> One]]

\* the alpha values object A may have before the first declaration
AlphaInit == {Zero, Rat(1, 2), One}

(***************************************************************************)
(* State.                                                                  *)
(***************************************************************************)
VARIABLES
    time_resolution,    \* self.time_resolution
    total_duration,     \* self.total_duration, optional
    video_filename,     \* whether self.video_filename is set (truthy)
    events,             \* self.events: sequence of Events
    bookingMode,        \* self.bookingMode
    performers,         \* self._performers
    inputvalues,        \* self._inputvalues
    lastT,              \* self._lastT, optional
    lastDuration,       \* self._lastDuration, optional
    lastActs,           \* self._lastActs; <<>> stands for None and for []
    objects,            \* self.objects: the render-object list
    props,              \* the visual properties of every scene object
    pc,                 \* position inside play(): "idle" or "loop"
    idx,                \* index of the next Event of play()'s loop
    ttlast,             \* play()'s local ttlast
    shows,              \* show(interactive=False) calls of the current play()
    interactive,        \* whether play() reached show(interactive=True)
    vd,                 \* the Video writer of the current play()
    raised,             \* the exception that escaped the latest call, or ""
    budget,             \* declaration calls the caller may still make
    nplays,             \* play() calls made so far
    calls,              \* history: what each declaration call resolved to
    lastArgs,           \* history: the arguments of the latest declaration call
    booked,             \* history: self.events when the latest play() was called
    props0,             \* history: props when the latest play() was called
    applied             \* history: the Events the latest play() applied, in order

\* the scheduler (class Animation) and what is recorded about its calls
animationVars ==
    <<time_resolution, total_duration, video_filename, events, bookingMode,
      performers, inputvalues, lastT, lastDuration, lastActs, objects, props,
      pc, idx, ttlast, shows, interactive, vd, raised, budget, nplays,
      calls, lastArgs, booked, props0, applied>>

\* class AnimationPlayer: a Plotter with play/pause, step and slider widgets
VARIABLES
    value,              \* self.value: the current frame
    min_value,          \* self.min_value
    max_value,          \* self.max_value
    is_playing,         \* self.is_playing
    _loop,              \* self._loop
    timer_id,           \* self.timer_id, optional
    timer_callback_id,  \* self.timer_callback_id, optional (no player: <<>>)
    play_pause_button,  \* the status of self.play_pause_button
    slider,             \* self.slider: its value and whether it is on
    buttons,            \* whether the three buttons are in the renderer
    timers,             \* the live timers of the plotter's interactor
    observers,          \* the callbacks registered for the "timer" event
    called,             \* history: the frames the latest handler gave self._func
    lastEvent,          \* history: the latest handler, its argument, the state before
    framed,             \* history: whether set_frame has been called
    run                 \* history: optional, the frame at the latest resume() of
                        \* a player with loop=False and the frames self._func
                        \* was given since, while only timer events have
                        \* followed that resume()

playerVars == <<value, min_value, max_value, is_playing, _loop, timer_id,
                timer_callback_id, play_pause_button, slider, buttons, timers,
                observers, called, lastEvent, framed, run>>

\* classes Browser, MorphPlotter and MorphByLandmarkPlotter: Plotters driven
\* by slider, timer, mouse and key events
VARIABLES
    nobs,               \* Browser: the number of slides (nobs of __init__)
    _oldk,              \* Browser: self._oldk, optional
    visible,            \* Browser: for each slide, whether its objects are on
    seen,               \* history: the slides shown since play()
    sources,            \* self.sources of the two morph plotters
    targets,            \* self.targets of the two morph plotters
    source_pickable,    \* MorphPlotter: whether self.source is pickable
    target_pickable,    \* MorphPlotter: whether self.target is pickable
    warped,             \* MorphPlotter: whether self.warped is a mesh (not None)
    msg0,               \* MorphPlotter: the text of self.msg0
    msg1,               \* MorphPlotter: the text of self.msg1
    _sources,           \* MorphByLandmarkPlotter: self._sources
    vsources,           \* MorphByLandmarkPlotter: the coordinates of self.vsources
    vtargets,           \* MorphByLandmarkPlotter: the coordinates of self.vtargets
    status,             \* MorphByLandmarkPlotter: the text of self.status
    current_pid         \* MorphByLandmarkPlotter: self.current_pid, optional

plotterVars == <<nobs, _oldk, visible, seen, sources, targets, source_pickable,
                 target_pickable, warped, msg0, msg1, _sources, vsources,
                 vtargets, status, current_pid>>

vars == <<animationVars, playerVars, plotterVars>>

\* the fields play() and its loop own
playVars == <<pc, idx, ttlast, shows, interactive, vd, nplays, booked, props0, applied>>
\* the constructor's arguments
ctorVars == <<time_resolution, video_filename>>

NoArgs == [op |-> "", tag |-> "None", t |-> <<>>, duration |-> <<>>]
\* no Video writer; a writer has the duration it was opened with, the frames
\* added and the holds inserted, each with the frame it follows
NoVideo == [state |-> "none", duration |-> <<>>, frames |-> 0, pauses |-> <<>>]

\* Animation.__init__ with the given time_resolution and with or without a
\* video_filename, on a scene whose object A has alpha a0; n is the number of
\* declaration calls the caller will make
ConstructVideo(res, a0, n, video) ==
    /\ time_resolution = res
    /\ total_duration = <<>>
    /\ video_filename = video
    /\ events = <<>>
    /\ bookingMode = TRUE
    /\ performers = <<>>
    /\ inputvalues = [shape |-> "list", axis |-> "", vals |-> <<>>]
    /\ lastT = <<>>
    /\ lastDuration = <<>>
    /\ lastActs = <<>>
    /\ objects = <<>>
    /\ props = InitProps(a0)
    /\ pc = "idle"
    /\ idx = 1
    /\ ttlast = 0
    /\ shows = 0
    /\ interactive = FALSE
    /\ vd = NoVideo
    /\ raised = ""
    /\ budget = n
    /\ nplays = 0
    /\ calls = <<>>
    /\ lastArgs = NoArgs
    /\ booked = <<>>
    /\ props0 = InitProps(a0)
    /\ applied = <<>>

\* Animation.__init__ with a video_filename
Construct(res, a0, n) == ConstructVideo(res, a0, n, TRUE)

\* no handler of a player has run
NoEvent == [op |-> "", arg |-> <<>>, value |-> 0, is_playing |-> FALSE]

\* no AnimationPlayer was constructed
NoPlayer ==
    /\ value = 0
    /\ min_value = 0
    /\ max_value = 0
    /\ is_playing = FALSE
    /\ _loop = FALSE
    /\ timer_id = <<>>
    /\ timer_callback_id = <<>>
    /\ play_pause_button = ""
    /\ slider = [value |-> 0, on |-> FALSE]
    /\ buttons = FALSE
    /\ timers = {}
    /\ observers = {}
    /\ called = <<>>
    /\ lastEvent = NoEvent
    /\ framed = FALSE
    /\ run = <<>>

\* no Browser and no morph plotter has been constructed
NoPlotter ==
    /\ nobs = 0
    /\ _oldk = <<>>
    /\ visible = <<>>
    /\ seen = {}
    /\ sources = <<>>
    /\ targets = <<>>
    /\ source_pickable = FALSE
    /\ target_pickable = FALSE
    /\ warped = FALSE
    /\ msg0 = ""
    /\ msg1 = ""
    /\ _sources = <<>>
    /\ vsources = <<>>
    /\ vtargets = <<>>
    /\ status = ""
    /\ current_pid = <<>>

\* a scheduler with time resolution 1.0
Init ==
    /\ \E a0 \in AlphaInit : Construct(UnitResolution, a0, MaxCalls)
    /\ NoPlayer
    /\ NoPlotter

(***************************************************************************)
(* Animation._parse                                                        *)
(***************************************************************************)
\* the samples from a to b half a step apart
linspace_halves(a, b, num) ==
    IF num <= 0 THEN <<>>
    ELSE [i \in 1..(2 * num - 1) |->
             IF num = 1 THEN a ELSE a + ((i - 1) * (b - a)) \div (2 * (num - 1))]

\* num - 1 samples: the end point left out
linspace_open(a, b, num) ==
    IF num <= 1 THEN <<>>
    ELSE [i \in 1..(num - 1) |-> a + ((i - 1) * (b - a)) \div (num - 1)]

\* numpy.linspace(a, b, num) where b - a is a multiple of num - 1
linspace(a, b, num) ==
    IF num <= 0 THEN <<>>
    ELSE [i \in 1..num |-> IF num = 1 THEN a ELSE a + ((i - 1) * (b - a)) \div (num - 1)]

\* vedo.utils.is_sequence on an objs argument [tag, v]: tag "seq" is a list
\* v of objects, tag "obj" a single object v, tag "None" is None
is_sequence(objs) == objs.tag = "seq"

\* int(x / time_resolution): no half step added before truncating
QuantizeTruncate(x) == IntTrunc(x, time_resolution)

\* Python's int(x / time_resolution + 0.5)
Quantize(x) == IntTrunc(2 * x + time_resolution, 2 * time_resolution)

\* the end of the previous declaration: its start time plus its duration
DefaultTEnd ==
    IF lastT # <<>> /\ lastDuration # <<>> THEN lastT[1] + lastDuration[1] ELSE 0

\* the start time _parse uses when t is None: self._lastT if truthy, else 0.0
DefaultT == IF lastT # <<>> /\ lastT[1] # 0 THEN lastT[1] ELSE 0

\* an omitted duration taken from the previous start time
DefaultDurationFromT == IF lastT # <<>> THEN lastT[1] ELSE 0

\* the duration _parse uses when duration is None
DefaultDuration ==
    IF lastDuration # <<>> /\ lastDuration[1] # 0 THEN lastDuration[1] ELSE 0

\* a call without targets is let through
TargetsNeverMissing(objs) == FALSE

\* "if objs is None" and self._lastActs is None or empty: _parse raises
MissingTargets(objs) == objs.tag = "None" /\ lastActs = <<>>

\* what _parse(objs, t, duration) raises and returns: raised is the exception
\* ("" for none; a negative sample count makes linspace raise), acts, t,
\* duration and rng the returned objs2, t, duration, rng; t_in and duration_in
\* are t and duration before they are quantized
_parse(objs, t, duration) ==
    LET t1 == IF t = <<>> THEN DefaultT ELSE t[1]
        d1 == IF duration = <<>> THEN DefaultDuration ELSE duration[1]
        objs2 == IF objs.tag = "None" THEN lastActs
                 ELSE IF is_sequence(objs) THEN objs.v ELSE <<objs.v>>
        tq == Quantize(t1) * time_resolution
        nsteps == Quantize(d1)
        dq == nsteps * time_resolution
    IN  [raised |-> IF MissingTargets(objs) THEN "RuntimeError"
                    ELSE IF nsteps + 1 < 0 THEN "ValueError" ELSE "",
         acts |-> objs2,
         t_in |-> t1,
         duration_in |-> d1,
         t |-> tq,
         duration |-> dq,
         nsteps |-> nsteps,
         rng |-> linspace(tq, tq + dq, nsteps + 1)]

InSeq(x, s) == \E i \in 1..Len(s) : s[i] = x

\* self.objects after "self.objects.append(a)" for every target
RegisterAgain(objs, acts) == objs \o acts

\* self.objects after "if a not in self.objects: self.objects.append(a)"
RECURSIVE Register(_, _)
Register(objs, acts) ==
    IF acts = <<>> THEN objs
    ELSE Register(IF InSeq(Head(acts), objs) THEN objs ELSE Append(objs, Head(acts)),
                  Tail(acts))

\* the assignments _parse makes before it returns p
ParseEffect(p) ==
    /\ lastT' = <<p.t>>
    /\ lastDuration' = <<p.duration>>
    /\ lastActs' = p.acts
    /\ objects' = Register(objects, p.acts)

(***************************************************************************)
(* Events and payloads.  A payload is [shape, axis, vals]: vals is a       *)
(* sequence of vectors of rationals; a scalar payload (shape "scalar") is  *)
(* one vector of one component, a per-target list (shape "list") has one   *)
(* vector per target.                                                      *)
(***************************************************************************)
Scalar(x) == [shape |-> "scalar", axis |-> "", vals |-> <<<<x>>>>]
List(vs) == [shape |-> "list", axis |-> "", vals |-> vs]
Event(tt, action, acts, payload) ==
    [time |-> tt, action |-> action, targets |-> acts, payload |-> payload]

(***************************************************************************)
(* The arguments the caller passes to declaration calls.                   *)
(***************************************************************************)
None == [tag |-> "None", v |-> <<>>]
ListOf(acts) == [tag |-> "seq", v |-> acts]

\* targets: omitted, [A], [A, B]
ActsInputs == {None, ListOf(<<"A">>), ListOf(<<"A", "B">>)}
\* start times: omitted, 0, one time step
TimeInputs == {<<>>, <<0>>, <<time_resolution>>}
\* durations: omitted, 0, half a time step, one and two time steps
DurationInputs ==
    {<<>>, <<0>>, <<time_resolution \div 2>>, <<time_resolution>>, <<2 * time_resolution>>}
ColorInputs == {"red"}
AlphaInputs == {<<Zero, One>>, <<One, Rat(1, 2)>>}

(***************************************************************************)
(* The playback branches: what one method does to one performer a, the     *)
(* i-th of self._performers, with self._inputvalues = iv.                  *)
(***************************************************************************)
fade_in_always(P, a, i, iv) == [P EXCEPT ![a].alpha = iv.vals[1][1]]

fade_in_playback(P, a, i, iv) ==
    IF RatLeq(iv.vals[1][1], P[a].alpha) THEN P
    ELSE [P EXCEPT ![a].alpha = iv.vals[1][1]]

\* a fade_out that sets the alpha whatever it was
fade_out_always(P, a, i, iv) == [P EXCEPT ![a].alpha = iv.vals[1][1]]

fade_out_playback(P, a, i, iv) ==
    IF RatLeq(P[a].alpha, iv.vals[1][1]) THEN P
    ELSE [P EXCEPT ![a].alpha = iv.vals[1][1]]

change_alpha_between_playback(P, a, i, iv) == [P EXCEPT ![a].alpha = iv.vals[1][1]]

\* a.color(None) leaves the colour as it is
change_color_playback(P, a, i, iv) ==
    IF iv.vals[i] = <<>> THEN P ELSE [P EXCEPT ![a].color = iv.vals[i]]

\* a.backColor(None) leaves the backface colour as it is
change_backcolor_playback(P, a, i, iv) ==
    IF iv.vals[i] = <<>> THEN P ELSE [P EXCEPT ![a].backcolor = <<iv.vals[i]>>]

wireframe_playback(P, a, i, iv) == [P EXCEPT ![a].wireframe = (iv.vals[1][1] = One)]

change_line_width_playback(P, a, i, iv) == [P EXCEPT ![a].lw = iv.vals[i][1]]

change_line_color_playback(P, a, i, iv) ==
    IF iv.vals[i] = <<>> THEN P ELSE [P EXCEPT ![a].linecolor = iv.vals[i]]

change_lighting_playback(P, a, i, iv) == [P EXCEPT ![a].lighting = iv.vals[i]]

move_playback(P, a, i, iv) == [P EXCEPT ![a].pos = iv.vals[1]]

\* rotate_x, rotate_y or rotate_z by the Event's angle when the Event's axis
\* is "x", "y" or "z"; nothing for any other axis value
rotate_playback(P, a, i, iv) ==
    IF iv.axis \in {"x", "y", "z"}
    THEN [P EXCEPT ![a].rotation[iv.axis] = RatAdd(@, iv.vals[1][1])]
    ELSE P

\* a.scale(s) multiplies the object's scale by s
scale_playback(P, a, i, iv) == [P EXCEPT ![a].scale = RatMul(@, iv.vals[1][1])]

\* the call action(0, 0) of play(), by the bound method stored in the Event
PerformOne(op, P, a, i, iv) ==
    CASE op = "fade_in" -> fade_in_playback(P, a, i, iv)
      [] op = "fade_out" -> fade_out_playback(P, a, i, iv)
      [] op = "change_alpha_between" -> change_alpha_between_playback(P, a, i, iv)
      [] op = "change_color" -> change_color_playback(P, a, i, iv)
      [] op = "change_backcolor" -> change_backcolor_playback(P, a, i, iv)
      [] op \in {"change_to_wireframe", "change_to_surface"} -> wireframe_playback(P, a, i, iv)
      [] op = "change_line_width" -> change_line_width_playback(P, a, i, iv)
      [] op = "change_line_color" -> change_line_color_playback(P, a, i, iv)
      [] op = "change_lighting" -> change_lighting_playback(P, a, i, iv)
      [] op = "move" -> move_playback(P, a, i, iv)
      [] op = "rotate" -> rotate_playback(P, a, i, iv)
      [] op = "scale" -> scale_playback(P, a, i, iv)
      [] OTHER -> P

\* the loop "for i, a in enumerate(self._performers)" from index i on
RECURSIVE PerformFrom(_, _, _, _, _)
PerformFrom(op, P, perf, iv, i) ==
    IF i > Len(perf) THEN P
    ELSE PerformFrom(op, PerformOne(op, P, perf[i], i, iv), perf, iv, i + 1)

\* the methods whose playback branch hands self._inputvalues whole to every
\* performer, and those that index it by the performer's position
ScalarOps == {"fade_in", "fade_out", "change_alpha_between", "scale"}
ListOps == {"change_color", "change_backcolor", "change_line_width",
            "change_line_color", "change_lighting"}

\* the exception a playback branch raises with these performers and values.
\* move and rotate index self._performers[0], rotate self._inputvalues[0]; a
\* method run on the values another method booked compares or passes a list
\* where a number is needed (ScalarOps), or indexes a number (ListOps);
\* change_lighting reads four entries of each value
PerformError(op, perf, iv) ==
    CASE op = "move" -> IF Len(perf) = 0 THEN "IndexError" ELSE ""
      [] op = "rotate" ->
            IF iv.shape = "scalar" THEN "TypeError"
            ELSE IF iv.shape = "list" /\ Len(iv.vals) = 0 THEN "IndexError"
            ELSE IF iv.axis \in {"x", "y", "z"} /\ Len(perf) = 0 THEN "IndexError"
            ELSE ""
      [] op \in ScalarOps ->
            IF Len(perf) = 0 \/ iv.shape \in {"scalar", "bool"} THEN ""
            ELSE IF iv.shape = "vector" THEN "ValueError" ELSE "TypeError"
      [] op \in ListOps ->
            IF Len(perf) = 0 THEN ""
            ELSE IF iv.shape # "list" THEN "TypeError"
            ELSE IF op = "change_lighting" /\ Len(iv.vals[1]) = 0 THEN "TypeError"
            ELSE IF op = "change_lighting" /\ Len(iv.vals[1]) < 4 THEN "IndexError"
            ELSE ""
      [] OTHER -> ""

\* what a playback branch changed before it raised: change_lighting sets the
\* coefficients of the first performer one by one
PerformPartial(op, P, perf, iv) ==
    IF op = "change_lighting" /\ Len(perf) > 0 /\ iv.shape = "list"
    THEN [P EXCEPT ![perf[1]].lighting =
              [q \in 1..4 |-> IF q <= Len(iv.vals[1]) THEN iv.vals[1][q] ELSE @[q]]]
    ELSE P

\* the objects' properties after the playback branch of op; move and rotate
\* act on self._performers[0] alone
Perform(op, P, perf, iv) ==
    IF PerformError(op, perf, iv) # "" THEN PerformPartial(op, P, perf, iv)
    ELSE IF op \in {"move", "rotate"}
    THEN (IF Len(perf) = 0 THEN P ELSE PerformOne(op, P, perf[1], 1, iv))
    ELSE PerformFrom(op, P, perf, iv, 1)

(***************************************************************************)
(* The two branches of a declaration call.                                 *)
(***************************************************************************)
\* the record of a declaration call kept in calls
Call(op, p, n, err) ==
    [op |-> op, booking |-> TRUE, acts |-> p.acts, t_in |-> p.t_in,
     duration_in |-> p.duration_in, t |-> p.t, nsteps |-> p.nsteps, rng |-> p.rng,
     first |-> Len(events) + 1, count |-> n, raised |-> err]

Args(op, objs, t, duration) ==
    [op |-> op, tag |-> objs.tag, t |-> t, duration |-> duration]

\* a booking call that also applies the last Event it books to its targets
BookApplying(op, args, p, evs, err) ==
    /\ IF p.raised # ""
       THEN /\ UNCHANGED <<events, lastT, lastDuration, lastActs, objects, props>>
            /\ raised' = p.raised
            /\ calls' = Append(calls, Call(op, p, 0, p.raised))
       ELSE /\ ParseEffect(p)
            /\ events' = IF err = "" THEN events \o evs ELSE events
            /\ props' = IF err = "" /\ Len(evs) > 0
                        THEN Perform(evs[Len(evs)].action, props, p.acts,
                                     evs[Len(evs)].payload)
                        ELSE props
            /\ raised' = err
            /\ calls' = Append(calls, Call(op, p, IF err = "" THEN Len(evs) ELSE 0, err))
    /\ lastArgs' = args
    /\ budget' = budget - 1
    /\ UNCHANGED <<performers, inputvalues, bookingMode, total_duration>>
    /\ UNCHANGED playVars
    /\ UNCHANGED ctorVars
    /\ UNCHANGED playerVars
    /\ UNCHANGED plotterVars

\* A declaration call in booking mode: p is what _parse gave, evs the Events
\* the method appends, err the exception it raises after _parse returned
Book(op, args, p, evs, err) ==
    /\ IF p.raised # ""
       THEN /\ UNCHANGED <<events, lastT, lastDuration, lastActs, objects>>
            /\ raised' = p.raised
            /\ calls' = Append(calls, Call(op, p, 0, p.raised))
       ELSE /\ ParseEffect(p)
            /\ events' = IF err = "" THEN events \o evs ELSE events
            /\ raised' = err
            /\ calls' = Append(calls, Call(op, p, IF err = "" THEN Len(evs) ELSE 0, err))
    /\ lastArgs' = args
    /\ budget' = budget - 1
    /\ UNCHANGED <<props, performers, inputvalues, bookingMode, total_duration>>
    /\ UNCHANGED playVars
    /\ UNCHANGED ctorVars
    /\ UNCHANGED playerVars
    /\ UNCHANGED plotterVars

\* A declaration call when bookingMode is false: the method's playback branch
\* acts on the stale self._performers with the stale self._inputvalues
Replay(op, args) ==
    /\ props' = Perform(op, props, performers, inputvalues)
    /\ raised' = PerformError(op, performers, inputvalues)
    /\ lastArgs' = args
    /\ budget' = budget - 1
    /\ calls' = Append(calls, [op |-> op, booking |-> FALSE, acts |-> <<>>, t_in |-> 0,
                               duration_in |-> 0, t |-> 0, nsteps |-> 0, rng |-> <<>>,
                               first |-> Len(events) + 1, count |-> 0,
                               raised |-> PerformError(op, performers, inputvalues)])
    /\ UNCHANGED <<events, lastT, lastDuration, lastActs, objects, performers,
                   inputvalues, bookingMode, total_duration>>
    /\ UNCHANGED playVars
    /\ UNCHANGED ctorVars
    /\ UNCHANGED playerVars
    /\ UNCHANGED plotterVars

\* a declaration call can be made: play() is not running, calls are left
CanDeclare == pc = "idle" /\ budget > 0

(***************************************************************************)
(* The booking branches: the Events one method appends after _parse gave p *)
(***************************************************************************)
fade_in_events(p) ==
    [k \in 1..Len(p.rng) |->
        Event(p.rng[k], "fade_in", p.acts,
              Scalar(lin_interpolate(p.rng[k], p.t, p.t + p.duration, Zero, One)))]

\* a fade_out booked with fade_in's range of values
fade_out_events_rising(p) ==
    [k \in 1..Len(p.rng) |->
        Event(p.rng[k], "fade_out", p.acts,
              Scalar(lin_interpolate(p.rng[k], p.t, p.t + p.duration, Zero, One)))]

fade_out_events(p) ==
    [k \in 1..Len(p.rng) |->
        Event(p.rng[k], "fade_out", p.acts,
              Scalar(lin_interpolate(p.rng[k], p.t, p.t + p.duration, One, Zero)))]

\* booked with self.fade_out as the Event's action
change_alpha_between_events(p, alpha1, alpha2) ==
    [k \in 1..Len(p.rng) |->
        Event(p.rng[k], "fade_out", p.acts,
              Scalar(lin_interpolate(p.rng[k], p.t, p.t + p.duration, alpha1, alpha2)))]

\* the (r, g, b) interpolated between col1 and col2 at time tt
InterpolateRGB(p, tt, col1, col2) ==
    [ch \in 1..3 |-> lin_interpolate(tt, p.t, p.t + p.duration, col1[ch], col2[ch])]

change_color_events(p, c) ==
    LET col2 == get_color(c)
    IN  [k \in 1..Len(p.rng) |->
            Event(p.rng[k], "change_color", p.acts,
                  List([j \in 1..Len(p.acts) |->
                          InterpolateRGB(p, p.rng[k], props[p.acts[j]].color, col2)]))]

(***************************************************************************)
(* The declaration methods.                                                *)
(***************************************************************************)
fade_in(acts, t, duration) ==
    /\ CanDeclare
    /\ LET args == Args("fade_in", acts, t, duration)
       IN  IF bookingMode
           THEN LET p == _parse(acts, t, duration)
                IN  Book("fade_in", args, p, fade_in_events(p), "")
           ELSE Replay("fade_in", args)

fade_out(acts, t, duration) ==
    /\ CanDeclare
    /\ LET args == Args("fade_out", acts, t, duration)
       IN  IF bookingMode
           THEN LET p == _parse(acts, t, duration)
                IN  Book("fade_out", args, p, fade_out_events(p), "")
           ELSE Replay("fade_out", args)

change_alpha_between(alpha1, alpha2, acts, t, duration) ==
    /\ CanDeclare
    /\ LET args == Args("change_alpha_between", acts, t, duration)
       IN  IF bookingMode
           THEN LET p == _parse(acts, t, duration)
                IN  Book("change_alpha_between", args, p,
                         change_alpha_between_events(p, alpha1, alpha2), "")
           ELSE Replay("change_alpha_between", args)

change_color(c, acts, t, duration) ==
    /\ CanDeclare
    /\ LET args == Args("change_color", acts, t, duration)
       IN  IF bookingMode
           THEN LET p == _parse(acts, t, duration)
                IN  Book("change_color", args, p,
                         IF p.raised = "" THEN change_color_events(p, c) ELSE <<>>, "")
           ELSE Replay("change_color", args)

FadeIn == \E acts \in ActsInputs, t \in TimeInputs, d \in DurationInputs :
              fade_in(acts, t, d)
FadeOut == \E acts \in ActsInputs, t \in TimeInputs, d \in DurationInputs :
               fade_out(acts, t, d)
ChangeAlphaBetween ==
    \E al \in AlphaInputs, acts \in ActsInputs, t \in TimeInputs, d \in DurationInputs :
        change_alpha_between(al[1], al[2], acts, t, d)
ChangeColor ==
    \E c \in ColorInputs, acts \in ActsInputs, t \in TimeInputs, d \in DurationInputs :
        change_color(c, acts, t, d)

(***************************************************************************)
(* The other transitions.                                                  *)
(***************************************************************************)
Obj(a) == [tag |-> "obj", v |-> a]
\* targets of a single-object transition: omitted, A, [A, B]
SingleInputs == {None, Obj("A"), ListOf(<<"A", "B">>)}
WidthInputs == {Rat(2, 1)}
StyleInputs == {"metallic", "glossy", "matte"}
PointInputs == {<<One, One, Zero>>}
MoveStyleInputs == {"linear", "quad", "cubic"}
AxisInputs == {"x", "(1, 0, 0)"}
AngleInputs == {Rat(90, 1)}
FactorInputs == {Rat(2, 1)}

change_backcolor_events(p, c) ==
    LET col2 == get_color(c)
    IN  [k \in 1..Len(p.rng) |->
            Event(p.rng[k], "change_backcolor", p.acts,
                  List([j \in 1..Len(p.acts) |->
                          IF props[p.acts[j]].backcolor # <<>>
                          THEN InterpolateRGB(p, p.rng[k], props[p.acts[j]].backcolor[1], col2)
                          ELSE <<>>]))]

change_line_width_events(p, lw) ==
    [k \in 1..Len(p.rng) |->
        Event(p.rng[k], "change_line_width", p.acts,
              List([j \in 1..Len(p.acts) |->
                      <<lin_interpolate(p.rng[k], p.t, p.t + p.duration,
                                        props[p.acts[j]].lw, lw)>>]))]

change_line_color_events(p, c) ==
    LET col2 == get_color(c)
    IN  [k \in 1..Len(p.rng) |->
            Event(p.rng[k], "change_line_color", p.acts,
                  List([j \in 1..Len(p.acts) |->
                          InterpolateRGB(p, p.rng[k], props[p.acts[j]].linecolor, col2)]))]

\* pars[0..3] of a known lighting style: ambient, diffuse, specular, power
LightingPars(style) ==
    CASE style = "metallic" -> <<Rat(1, 10), Rat(3, 10), One, Rat(10, 1)>>
      [] style = "plastic" -> <<Rat(3, 10), Rat(4, 10), Rat(3, 10), Rat(5, 1)>>
      [] style = "shiny" -> <<Rat(2, 10), Rat(6, 10), Rat(8, 10), Rat(50, 1)>>
      [] style = "glossy" -> <<Rat(1, 10), Rat(7, 10), Rat(9, 10), Rat(90, 1)>>
      [] OTHER -> <<Rat(1, 10), One, Rat(5, 100), Rat(5, 1)>>

KnownStyle(style) == style \in {"metallic", "plastic", "shiny", "glossy", "default"}

change_lighting_events(p, style) ==
    LET pars == LightingPars(style)
    IN  [k \in 1..Len(p.rng) |->
            Event(p.rng[k], "change_lighting", p.acts,
                  List([j \in 1..Len(p.acts) |->
                          [q \in 1..4 |->
                              lin_interpolate(p.rng[k], p.t, p.t + p.duration,
                                              props[p.acts[j]].lighting[q], pars[q])]]))]

\* with an unknown style pars is never assigned: its first use raises
change_lighting_error(p, style) ==
    IF ~KnownStyle(style) /\ Len(p.rng) > 0 /\ Len(p.acts) > 0
    THEN "UnboundLocalError" ELSE ""

\* cpos + dv * i (linear) or cpos + dv * i * (i / len(rng)) ** 2 (quad), with
\* dv = (pt - cpos) / len(rng) and i = j + 1 for the j-th sample, j from 0
MovePoint(cpos, pt, n, i, style) ==
    [ch \in 1..3 |->
        LET dv == RatMul(RatSub(pt[ch], cpos[ch]), Rat(1, n))
            x == Rat(i, n)
        IN  IF style = "quad"
            THEN RatAdd(cpos[ch], RatMul(RatMul(dv, Rat(i, 1)), RatMul(x, x)))
            ELSE RatAdd(cpos[ch], RatMul(dv, Rat(i, 1)))]

move_events(p, pt, style) ==
    [k \in 1..Len(p.rng) |->
        Event(p.rng[k], "move", p.acts,
              [shape |-> "vector", axis |-> "",
               vals |-> <<MovePoint(props[p.acts[1]].pos, pt, Len(p.rng), k, style)>>])]

\* acts[0] of an empty target list
FirstTargetError(p) == IF Len(p.acts) = 0 THEN "IndexError" ELSE ""

rotate_events(p, axis, angle) ==
    [k \in 1..Len(p.rng) |->
        Event(p.rng[k], "rotate", p.acts,
              [shape |-> "axis_angle", axis |-> axis,
               vals |-> <<<<RatMul(angle, Rat(1, Len(p.rng)))>>>>])]

scale_events(p, factor) ==
    [k \in 1..Len(p.rng) |->
        Event(p.rng[k], "scale", p.acts,
              Scalar(lin_interpolate(p.rng[k], p.t, p.t + p.duration, One, factor)))]

\* one Event at the quantized start time, whatever the duration
wireframe_events(op, p, on) ==
    <<Event(p.t, op, p.acts,
            [shape |-> "bool", axis |-> "", vals |-> <<<<IF on THEN One ELSE Zero>>>>])>>

\* The geometry mesh_erode asks a target for: the number of points,
\* diagonal_size(), and for each point the distance to the chosen corner of
\* the bounding box (corner 0 holds a vertex, corner 6 does not)
NPoints(a) == 3
DiagonalSize(a) == Rat(4, 1)
PointDistance(a, corner) ==
    IF corner = 0 THEN <<Zero, Rat(2, 1), Rat(4, 1)>> ELSE <<Rat(4, 1), Rat(2, 1), One>>

\* the distance from the corner to acts[0].closest_point(corner)
ClosestDistance(a, corner) ==
    LET ds == PointDistance(a, corner)
    IN  CHOOSE d \in {ds[k] : k \in 1..Len(ds)} : \A k \in 1..Len(ds) : RatLeq(d, ds[k])

\* closest_point(corner, radius=d, return_point_id=True): the ids of the
\* points within d of the corner
PointsWithin(a, corner, d) ==
    LET ds == PointDistance(a, corner)
    IN  SelectSeq([k \in 1..Len(ds) |-> k], LAMBDA k : RatLeq(ds[k], d))

CornerInputs == {0, 6}

\* the radius of the sample at time tt: from dmin to 1.01 * diag
ErodeRadius(p, corner, tt) ==
    lin_interpolate(tt, p.t, p.t + p.duration, ClosestDistance(p.acts[1], corner),
                    RatMul(DiagonalSize(p.acts[1]), Rat(101, 100)))

\* one Event per sample whose radius is positive and whose ids are no more
\* than the target's points
mesh_erode_events(p, corner) ==
    LET keep(k) == LET d == ErodeRadius(p, corner, p.rng[k])
                   IN  /\ RatLess(Zero, d)
                       /\ Len(PointsWithin(p.acts[1], corner, d)) <= NPoints(p.acts[1])
        ks == SelectSeq([k \in 1..Len(p.rng) |-> k], keep)
    IN  [j \in 1..Len(ks) |->
            LET ids == PointsWithin(p.acts[1], corner, ErodeRadius(p, corner, p.rng[ks[j]]))
            IN  Event(p.rng[ks[j]], "mesh_erode", p.acts,
                      [shape |-> "ids", axis |-> "",
                       vals |-> <<[q \in 1..Len(ids) |-> Rat(ids[q], 1)]>>])]

\* a declaration method: both branches
Declare(op, acts, t, duration, p, evs, err) ==
    /\ CanDeclare
    /\ IF bookingMode
       THEN Book(op, Args(op, acts, t, duration), p, evs, err)
       ELSE Replay(op, Args(op, acts, t, duration))

change_backcolor(c, acts, t, duration) ==
    LET p == _parse(acts, t, duration)
    IN  Declare("change_backcolor", acts, t, duration, p, change_backcolor_events(p, c), "")

change_to_wireframe(acts, t) ==
    LET p == _parse(acts, t, <<>>)
    IN  Declare("change_to_wireframe", acts, t, <<>>, p,
                wireframe_events("change_to_wireframe", p, TRUE), "")

change_to_surface(acts, t) ==
    LET p == _parse(acts, t, <<>>)
    IN  Declare("change_to_surface", acts, t, <<>>, p,
                wireframe_events("change_to_surface", p, FALSE), "")

change_line_width(lw, acts, t, duration) ==
    LET p == _parse(acts, t, duration)
    IN  Declare("change_line_width", acts, t, duration, p, change_line_width_events(p, lw), "")

change_line_color(c, acts, t, duration) ==
    LET p == _parse(acts, t, duration)
    IN  Declare("change_line_color", acts, t, duration, p, change_line_color_events(p, c), "")

change_lighting(style, acts, t, duration) ==
    LET p == _parse(acts, t, duration)
    IN  Declare("change_lighting", acts, t, duration, p, change_lighting_events(p, style),
                change_lighting_error(p, style))

\* more than one target is logged, and the method goes on with acts[0]
move(act, pt, t, duration, style) ==
    LET p == _parse(act, t, duration)
    IN  Declare("move", act, t, duration, p, move_events(p, pt, style), FirstTargetError(p))

rotate(act, axis, angle, t, duration) ==
    LET p == _parse(act, t, duration)
    IN  Declare("rotate", act, t, duration, p, rotate_events(p, axis, angle), "")

scale(acts, factor, t, duration) ==
    LET p == _parse(acts, t, duration)
    IN  Declare("scale", acts, t, duration, p, scale_events(p, factor), "")

\* more than one target is logged, and the method goes on with acts[0]; the
\* method has no playback branch
mesh_erode(act, corner, t, duration) ==
    LET p == _parse(act, t, duration)
    IN  Declare("mesh_erode", act, t, duration, p,
                IF p.raised = "" /\ FirstTargetError(p) = "" THEN mesh_erode_events(p, corner)
                ELSE <<>>,
                FirstTargetError(p))

ChangeBackcolor ==
    \E c \in ColorInputs, acts \in ActsInputs, t \in TimeInputs, d \in DurationInputs :
        change_backcolor(c, acts, t, d)
ChangeToWireframe == \E acts \in ActsInputs, t \in TimeInputs : change_to_wireframe(acts, t)
ChangeToSurface == \E acts \in ActsInputs, t \in TimeInputs : change_to_surface(acts, t)
ChangeLineWidth ==
    \E lw \in WidthInputs, acts \in ActsInputs, t \in TimeInputs, d \in DurationInputs :
        change_line_width(lw, acts, t, d)
ChangeLineColor ==
    \E c \in ColorInputs, acts \in ActsInputs, t \in TimeInputs, d \in DurationInputs :
        change_line_color(c, acts, t, d)
ChangeLighting ==
    \E st \in StyleInputs, acts \in ActsInputs, t \in TimeInputs, d \in DurationInputs :
        change_lighting(st, acts, t, d)
Move ==
    \E act \in SingleInputs, pt \in PointInputs, t \in TimeInputs, d \in DurationInputs,
       st \in MoveStyleInputs : move(act, pt, t, d, st)
Rotate ==
    \E act \in SingleInputs, ax \in AxisInputs, an \in AngleInputs, t \in TimeInputs,
       d \in DurationInputs : rotate(act, ax, an, t, d)
Scale ==
    \E acts \in ActsInputs, f \in FactorInputs, t \in TimeInputs, d \in DurationInputs :
        scale(acts, f, t, d)
MeshErode ==
    \E act \in SingleInputs, corner \in CornerInputs, t \in TimeInputs,
       d \in DurationInputs : mesh_erode(act, corner, t, d)

(***************************************************************************)
(* Animation.play                                                          *)
(***************************************************************************)
\* e put into the time-sorted list s in front of the Events of its own time
RECURSIVE InsertBeforeTies(_, _)
InsertBeforeTies(s, e) ==
    IF Len(s) = 0 THEN <<e>>
    ELSE IF s[Len(s)].time < e.time THEN Append(s, e)
    ELSE Append(InsertBeforeTies(SubSeq(s, 1, Len(s) - 1), e), s[Len(s)])

\* e put into the time-sorted list s behind every Event that is not later
RECURSIVE InsertByTime(_, _)
InsertByTime(s, e) ==
    IF Len(s) = 0 THEN <<e>>
    ELSE IF s[Len(s)].time <= e.time THEN Append(s, e)
    ELSE Append(InsertByTime(SubSeq(s, 1, Len(s) - 1), e), s[Len(s)])

RECURSIVE StableSort(_)
StableSort(evs) ==
    IF Len(evs) = 0 THEN <<>>
    ELSE InsertByTime(StableSort(SubSeq(evs, 1, Len(evs) - 1)), evs[Len(evs)])

Unsorted(evs) == evs

\* sorted(self.events, key=lambda x: x[0])
SortedEvents(evs) == StableSort(evs)

\* play() up to the head of its loop: sort, leave booking mode, fix the total
\* duration (an IndexError on an empty list), open the video
PlayBegin ==
    /\ pc = "idle"
    /\ nplays < MaxPlays
    /\ nplays' = nplays + 1
    /\ booked' = events
    /\ props0' = props
    /\ applied' = <<>>
    /\ events' = SortedEvents(events)
    /\ bookingMode' = FALSE
    /\ shows' = 0
    /\ interactive' = FALSE
    /\ idx' = 1
    /\ ttlast' = 0
    /\ IF total_duration = <<>> /\ Len(events) = 0
       THEN /\ raised' = "IndexError"
            /\ pc' = "idle"
            /\ vd' = NoVideo
            /\ UNCHANGED total_duration
       ELSE /\ raised' = ""
            /\ pc' = "loop"
            /\ total_duration' =
                  IF total_duration = <<>>
                  THEN <<events'[Len(events')].time - events'[1].time>>
                  ELSE total_duration
            /\ vd' = IF video_filename
                     THEN [state |-> "open", duration |-> total_duration',
                           frames |-> 0, pauses |-> <<>>]
                     ELSE NoVideo
    /\ UNCHANGED <<performers, inputvalues, lastT, lastDuration, lastActs, objects,
                   props, budget, calls, lastArgs>>
    /\ UNCHANGED ctorVars
    /\ UNCHANGED playerVars
    /\ UNCHANGED plotterVars

\* whether the loop renders a frame after an Event dt later than the last one
FrameDueAlways(dt) == TRUE

FrameDue(dt) == dt > eps

\* a hold after every frame that comes a full time step after the last one
HoldDueFromResolution(dt) == dt >= time_resolution

\* whether the loop holds the video after that frame
HoldDue(dt) == dt > time_resolution + eps

\* one iteration of "for e in self.events"
PlayEvent ==
    /\ pc = "loop"
    /\ idx <= Len(events)
    /\ LET e == events[idx]
           dt == e.time - ttlast
       IN  /\ performers' = e.targets
           /\ inputvalues' = e.payload
           /\ props' = Perform(e.action, props, e.targets, e.payload)
           /\ shows' = IF FrameDue(dt) THEN shows + 1 ELSE shows
           /\ vd' = IF FrameDue(dt) /\ video_filename
                    THEN [vd EXCEPT !.frames = @ + 1,
                                    !.pauses =
                                        IF HoldDue(dt)
                                        THEN Append(@, [frame |-> vd.frames + 1,
                                                        length |-> dt])
                                        ELSE @]
                    ELSE vd
           /\ ttlast' = e.time
           /\ applied' = Append(applied, e)
    /\ idx' = idx + 1
    /\ UNCHANGED <<events, bookingMode, lastT, lastDuration, lastActs, objects,
                   total_duration, raised, budget, nplays, calls, lastArgs, pc,
                   interactive, booked, props0>>
    /\ UNCHANGED ctorVars
    /\ UNCHANGED playerVars
    /\ UNCHANGED plotterVars

\* play() after its loop, leaving the scheduler in playback mode
PlayEndInPlaybackMode ==
    /\ pc = "loop"
    /\ idx > Len(events)
    /\ shows' = shows + 1
    /\ vd' = IF video_filename
             THEN [vd EXCEPT !.frames = @ + 1, !.state = "closed"]
             ELSE vd
    /\ interactive' = TRUE
    /\ bookingMode' = FALSE
    /\ pc' = "idle"
    /\ UNCHANGED <<events, performers, inputvalues, lastT, lastDuration, lastActs,
                   objects, props, total_duration, raised, budget, nplays, calls,
                   lastArgs, idx, ttlast, booked, props0, applied>>
    /\ UNCHANGED ctorVars
    /\ UNCHANGED playerVars
    /\ UNCHANGED plotterVars

\* play() after its loop, dropping the Events it has played
PlayEndClearsEvents ==
    /\ pc = "loop"
    /\ idx > Len(events)
    /\ shows' = shows + 1
    /\ vd' = IF video_filename
             THEN [vd EXCEPT !.frames = @ + 1, !.state = "closed"]
             ELSE vd
    /\ interactive' = TRUE
    /\ bookingMode' = TRUE
    /\ pc' = "idle"
    /\ events' = <<>>
    /\ UNCHANGED <<performers, inputvalues, lastT, lastDuration, lastActs,
                   objects, props, total_duration, raised, budget, nplays, calls,
                   lastArgs, idx, ttlast, booked, props0, applied>>
    /\ UNCHANGED ctorVars
    /\ UNCHANGED playerVars
    /\ UNCHANGED plotterVars

\* play() after its loop: the final frame, the video closed, the interactive
\* show, booking mode restored
PlayEnd ==
    /\ pc = "loop"
    /\ idx > Len(events)
    /\ shows' = shows + 1
    /\ vd' = IF video_filename
             THEN [vd EXCEPT !.frames = @ + 1, !.state = "closed"]
             ELSE vd
    /\ interactive' = TRUE
    /\ bookingMode' = TRUE
    /\ pc' = "idle"
    /\ UNCHANGED <<events, performers, inputvalues, lastT, lastDuration, lastActs,
                   objects, props, total_duration, raised, budget, nplays, calls,
                   lastArgs, idx, ttlast, booked, props0, applied>>
    /\ UNCHANGED ctorVars
    /\ UNCHANGED playerVars
    /\ UNCHANGED plotterVars

\* an exception inside the loop after which booking mode is restored
PlayRaiseRestoring ==
    /\ pc = "loop"
    /\ idx <= Len(events)
    /\ LET e == events[idx]
       IN  /\ FrameDue(e.time - ttlast)
           /\ performers' = e.targets
           /\ inputvalues' = e.payload
           /\ props' = Perform(e.action, props, e.targets, e.payload)
           /\ applied' = Append(applied, e)
    /\ raised' = "RenderError"
    /\ pc' = "idle"
    /\ bookingMode' = TRUE
    /\ UNCHANGED <<events, lastT, lastDuration, lastActs, objects,
                   total_duration, budget, nplays, calls, lastArgs, idx, ttlast,
                   shows, interactive, vd, booked, props0>>
    /\ UNCHANGED ctorVars
    /\ UNCHANGED playerVars
    /\ UNCHANGED plotterVars

\* an exception that self.show or vd.add_frame raises inside the loop, after
\* the Event's action was applied: nothing catches it, play() is left at once
PlayRaise ==
    /\ pc = "loop"
    /\ idx <= Len(events)
    /\ LET e == events[idx]
       IN  /\ FrameDue(e.time - ttlast)
           /\ performers' = e.targets
           /\ inputvalues' = e.payload
           /\ props' = Perform(e.action, props, e.targets, e.payload)
           /\ applied' = Append(applied, e)
    /\ raised' = "RenderError"
    /\ pc' = "idle"
    /\ UNCHANGED <<events, bookingMode, lastT, lastDuration, lastActs, objects,
                   total_duration, budget, nplays, calls, lastArgs, idx, ttlast,
                   shows, interactive, vd, booked, props0>>
    /\ UNCHANGED ctorVars
    /\ UNCHANGED playerVars
    /\ UNCHANGED plotterVars

(***************************************************************************)
(* The scheduler used with fades and colour changes.                       *)
(***************************************************************************)
Next ==
    \/ FadeIn
    \/ FadeOut
    \/ ChangeColor
    \/ PlayBegin
    \/ PlayEvent
    \/ PlayRaise
    \/ PlayEnd

Spec == Init /\ [][Next]_vars

(***************************************************************************)
(* The scheduler used with every transition, for MaxCallsAll calls.        *)
(***************************************************************************)
InitAll ==
    /\ \E res \in Resolutions : Construct(res, Rat(1, 2), MaxCallsAll)
    /\ NoPlayer
    /\ NoPlotter

NextAll ==
    \/ FadeIn
    \/ FadeOut
    \/ ChangeAlphaBetween
    \/ ChangeColor
    \/ ChangeBackcolor
    \/ ChangeToWireframe
    \/ ChangeToSurface
    \/ ChangeLineWidth
    \/ ChangeLineColor
    \/ ChangeLighting
    \/ Move
    \/ Rotate
    \/ Scale
    \/ MeshErode
    \/ PlayBegin
    \/ PlayEvent
    \/ PlayRaise
    \/ PlayEnd

SpecAll == InitAll /\ [][NextAll]_vars

(***************************************************************************)
(* _parse called on its own, with start times and durations that are not   *)
(* multiples of the time resolution, and negative ones.                    *)
(***************************************************************************)
Quarter == time_resolution \div 4
ParseActs == {Obj("A"), ListOf(<<"A", "B">>)}
ParseTimes == {<<>>} \cup {<<k * Quarter>> : k \in (0 - MaxQuarters)..MaxQuarters}
ParseDurations == {<<>>} \cup {<<k * Quarter>> : k \in (0 - MaxQuarters)..(2 * MaxQuarters)}

ParseCall ==
    \E objs \in ParseActs, t \in ParseTimes, d \in ParseDurations :
        /\ CanDeclare
        /\ Book("_parse", Args("_parse", objs, t, d), _parse(objs, t, d), <<>>, "")

InitParse ==
    /\ Construct(DefaultResolution, One, MaxParseCalls)
    /\ NoPlayer
    /\ NoPlotter

NextParse == ParseCall

SpecParse == InitParse /\ [][NextParse]_vars

(***************************************************************************)
(* The scheduler used with switch_on and switch_off at scattered times,    *)
(* with and without a video file.                                          *)
(***************************************************************************)
switch_on(acts, t) == fade_in(acts, t, <<0>>)

switch_off(acts, t) == fade_out(acts, t, <<0>>)

\* start times: omitted, and every half time step up to MaxGapHalves
GapTimes == {<<>>} \cup {<<k * (time_resolution \div 2)>> : k \in 0..MaxGapHalves}
\* targets: [A, B] (the targets have no part in the timing)
GapActs == {ListOf(<<"A", "B">>)}

SwitchOn == \E acts \in GapActs, t \in GapTimes : switch_on(acts, t)

SwitchOff == \E acts \in GapActs, t \in GapTimes : switch_off(acts, t)

InitGaps ==
    /\ \E res \in Resolutions, video \in BOOLEAN :
          ConstructVideo(res, One, MaxGapCalls, video)
    /\ NoPlayer
    /\ NoPlotter

NextGaps ==
    \/ SwitchOn
    \/ SwitchOff
    \/ PlayBegin
    \/ PlayEvent
    \/ PlayRaise
    \/ PlayEnd

SpecGaps == InitGaps /\ [][NextGaps]_vars

(***************************************************************************)
(* AnimationPlayer.  Frames are integers; a slider position is counted in  *)
(* half frames, so that a position between two frames can be told from a   *)
(* frame.  The plotter's timers and "timer" observers are the part of the  *)
(* interactor the player uses.                                             *)
(***************************************************************************)
\* the mutable fields of the player and of its plotter, as one record; called
\* collects the arguments self._func is given
Self ==
    [value |-> value, is_playing |-> is_playing, timer_id |-> timer_id,
     play_pause_button |-> play_pause_button, slider |-> slider,
     buttons |-> buttons, timers |-> timers, observers |-> observers,
     called |-> <<>>, framed |-> framed]

\* Plotter.timer_callback("create"): a timer with an id no live timer has
timer_create(T) == CHOOSE n \in 1..(Cardinality(T) + 1) :
                       n \notin T /\ \A m \in 1..(n - 1) : m \in T

\* Plotter.timer_callback("destroy", tid)
timer_destroy(T, tid) == T \ {tid}

\* Plotter.add_callback("timer", f): the id of the new observer
add_callback(O) == CHOOSE n \in 1..(Cardinality(O) + 1) : n \notin O

\* Plotter.remove_callback(cid)
remove_callback(O, cid) == O \ {cid}

pause(P) ==
    [P EXCEPT !.is_playing = FALSE,
              !.timers = IF P.timer_id # <<>> THEN timer_destroy(@, P.timer_id[1]) ELSE @,
              !.timer_id = <<>>,
              !.play_pause_button = "PLAY_SYMBOL"]

resume(P) ==
    LET T == IF P.timer_id # <<>> THEN timer_destroy(P.timers, P.timer_id[1])
             ELSE P.timers
        tid == timer_create(T)
    IN  [P EXCEPT !.timers = T \cup {tid},
                  !.timer_id = <<tid>>,
                  !.is_playing = TRUE,
                  !.play_pause_button = "PAUSE_SYMBOL"]

\* a toggle that starts the animation whatever the state
toggle_resuming(P) == resume(P)

toggle(P) == IF ~P.is_playing THEN resume(P) ELSE pause(P)

\* a frame below the range wraps to max_value, one past the last frame
FrameForPastEnd(v) ==
    IF _loop
    THEN IF v < min_value THEN max_value
         ELSE IF v >= max_value THEN min_value ELSE v
    ELSE IF v < min_value THEN min_value
         ELSE IF v >= max_value - 1 THEN max_value - 1 ELSE v

\* the frame set_frame settles on for the requested frame v
FrameFor(v) ==
    IF _loop
    THEN IF v < min_value THEN max_value - 1
         ELSE IF v >= max_value THEN min_value ELSE v
    ELSE IF v < min_value THEN min_value
         ELSE IF v >= max_value - 1 THEN max_value - 1 ELSE v

\* whether set_frame pauses the player on the requested frame v
PausesAt(v) == ~_loop /\ (v < min_value \/ v >= max_value - 1)

\* a set_frame that shows the frame it was asked for, in the range or not
set_frame_as_asked(P, v) ==
    LET Q == [(IF PausesAt(v) THEN pause(P) ELSE P) EXCEPT !.framed = TRUE]
    IN  IF Q.value # v
        THEN [Q EXCEPT !.value = v,
                       !.slider = [@ EXCEPT !.value = 2 * v],
                       !.called = Append(@, v)]
        ELSE Q

set_frame(P, v) ==
    LET Q == [(IF PausesAt(v) THEN pause(P) ELSE P) EXCEPT !.framed = TRUE]
        v2 == FrameFor(v)
    IN  IF Q.value # v2
        THEN [Q EXCEPT !.value = v2,
                       !.slider = [@ EXCEPT !.value = 2 * v2],
                       !.called = Append(@, v2)]
        ELSE Q

oneforward(P) == set_frame(pause(P), pause(P).value + 1)

onebackward(P) == set_frame(pause(P), pause(P).value - 1)

\* Python's int(round(x)) for the slider position x = h / 2, h >= 0: a
\* position half way between two frames goes to the even one
RoundHalfEven(h) ==
    IF h % 2 = 0 THEN h \div 2
    ELSE IF ((h - 1) \div 2) % 2 = 0 THEN (h - 1) \div 2 ELSE (h + 1) \div 2

\* the user has dragged the slider to position h
_slider_callback(P, h) ==
    LET D == [P EXCEPT !.slider = [@ EXCEPT !.value = h]]
    IN  set_frame(pause(D), RoundHalfEven(h))

\* a timer handler that skips a frame
_handle_timer_skipping(P) == set_frame(P, P.value + 2)

_handle_timer(P) == set_frame(P, P.value + 1)

\* a stop that leaves the observer of "timer" registered
stop_keeping_callback(P) ==
    [P EXCEPT !.timers = IF P.timer_id # <<>> THEN timer_destroy(@, P.timer_id[1]) ELSE @,
              !.timer_id = <<>>,
              !.slider = [@ EXCEPT !.on = FALSE],
              !.buttons = FALSE]

stop(P) ==
    [P EXCEPT !.timers = IF P.timer_id # <<>> THEN timer_destroy(@, P.timer_id[1]) ELSE @,
              !.timer_id = <<>>,
              !.observers = remove_callback(@, timer_callback_id[1]),
              !.slider = [@ EXCEPT !.on = FALSE],
              !.buttons = FALSE]

\* AnimationPlayer.__init__(func, irange, loop=loop)
AnimationPlayer(irange, loop) ==
    /\ value = irange[1] - 1
    /\ min_value = irange[1]
    /\ max_value = irange[2]
    /\ is_playing = FALSE
    /\ _loop = loop
    /\ timer_callback_id = <<add_callback({})>>
    /\ observers = {add_callback({})}
    /\ timer_id = <<>>
    /\ timers = {}
    /\ play_pause_button = "PLAY_SYMBOL"
    /\ buttons = TRUE
    /\ slider = [value |-> 2 * irange[1], on |-> TRUE]
    /\ called = <<>>
    /\ lastEvent = NoEvent
    /\ framed = FALSE
    /\ run = <<>>

\* the run of timer events after a resume(), as the handler op leaves it
RunAfter(op, Q) ==
    IF _loop THEN <<>>
    ELSE IF op = "resume" THEN <<[from |-> value, calls |-> <<>>]>>
    ELSE IF op = "timer" /\ run # <<>>
         THEN <<[run[1] EXCEPT !.calls = @ \o Q.called]>>
         ELSE <<>>

\* a handler or method of the player has run and left the player as Q
Handler(op, arg, Q) ==
    /\ timer_callback_id # <<>>
    /\ value' = Q.value
    /\ is_playing' = Q.is_playing
    /\ timer_id' = Q.timer_id
    /\ play_pause_button' = Q.play_pause_button
    /\ slider' = Q.slider
    /\ buttons' = Q.buttons
    /\ timers' = Q.timers
    /\ observers' = Q.observers
    /\ called' = Q.called
    /\ lastEvent' = [op |-> op, arg |-> arg, value |-> value, is_playing |-> is_playing]
    /\ framed' = Q.framed
    /\ run' = RunAfter(op, Q)
    /\ UNCHANGED <<min_value, max_value, _loop, timer_callback_id>>
    /\ UNCHANGED animationVars
    /\ UNCHANGED plotterVars

\* the frames a caller asks set_frame for: from two below the range to one
\* above it
FrameInputs == (min_value - 2)..(max_value + 1)

\* the positions the slider can be dragged to: min_value to max_value - 1
SliderPositions == (2 * min_value)..(2 * (max_value - 1))

\* the callback of the play/pause button; like every method it can also be
\* called by the program, whether or not the button is still shown
Toggle == Handler("toggle", <<>>, toggle(Self))

\* the callbacks of the step buttons
OneForward == Handler("oneforward", <<>>, oneforward(Self))

OneBackward == Handler("onebackward", <<>>, onebackward(Self))

SliderCallback ==
    /\ slider.on
    /\ \E h \in SliderPositions : Handler("slider", <<h>>, _slider_callback(Self, h))

\* a live timer fires: the interactor calls the observers of "timer"
TimerEvent ==
    /\ timers # {}
    /\ Handler("timer", <<>>,
               IF timer_callback_id[1] \in observers THEN _handle_timer(Self) ELSE Self)

\* the methods called by the program
SetFrameCall(v) == Handler("set_frame", <<v>>, set_frame(Self, v))

SetFrame == \E v \in FrameInputs : SetFrameCall(v)

Pause == Handler("pause", <<>>, pause(Self))

Resume == Handler("resume", <<>>, resume(Self))

Stop == Handler("stop", <<>>, stop(Self))

\* the frame ranges: irange = (lo, hi) with lo in {0, 1} and lo <= hi
Ranges == {r \in (0..1) \X (0..MaxFrame) : r[1] <= r[2]}

InitPlayer ==
    /\ \E r \in Ranges, loop \in BOOLEAN : AnimationPlayer(r, loop)
    /\ Construct(DefaultResolution, One, 0)
    /\ NoPlotter

NextPlayer ==
    \/ Toggle
    \/ OneForward
    \/ OneBackward
    \/ SliderCallback
    \/ TimerEvent
    \/ SetFrame
    \/ Pause
    \/ Resume
    \/ Stop

SpecPlayer == InitPlayer /\ [][NextPlayer]_vars

\* a player with loop=False is brought to some frame by set_frame, resumed,
\* and from then on only its timer fires (resume() may be called again).  The
\* timer resume() creates is a repeating one: while it is live the event loop
\* keeps delivering its events, hence the weak fairness of TimerEvent.
InitRun ==
    /\ \E r \in Ranges : AnimationPlayer(r, FALSE)
    /\ Construct(DefaultResolution, One, 0)
    /\ NoPlotter

NextRun ==
    \/ run = <<>> /\ SetFrame
    \/ Resume
    \/ TimerEvent

SpecRun == InitRun /\ [][NextRun]_vars /\ WF_vars(TimerEvent)

(***************************************************************************)
(* Browser.  The slider runs from 0.5 to nobs - 0.5; a slider position is  *)
(* counted in half slides, position h standing for h / 2.                  *)
(***************************************************************************)
\* the indices of the slides
Slides == 0..(nobs - 1)

\* the positions of the slider: 0.5 to nobs - 0.5
BrowserPositions == 1..(2 * nobs - 1)

\* the fields slider_function reads and writes, as one record
SelfBrowser == [slider |-> slider, _oldk |-> _oldk, visible |-> visible]

\* slider_function(): k = int(self.slider.value); unless k is the slide
\* already shown, slide k is switched on, the others off, and the title of
\* the slider is set (to str(k) for unnamed objects and no slider_title)
slider_function(B) ==
    LET k == B.slider.value \div 2
    IN  IF B._oldk = <<k>> THEN B
        ELSE [B EXCEPT !._oldk = <<k>>,
                       !.visible = [j \in DOMAIN @ |-> j = k],
                       !.slider = [@ EXCEPT !.title = <<k>>]]

\* Browser.__init__(objects) for a list of n objects: the slider is created
\* at its lowest position and slider_function is called once
Browser(n) ==
    LET B == slider_function([slider |-> [value |-> 1, title |-> <<>>],
                              _oldk |-> <<>>,
                              visible |-> [j \in 0..(n - 1) |-> TRUE]])
    IN  /\ nobs = n
        /\ slider = B.slider
        /\ _oldk = B._oldk
        /\ visible = B.visible
        /\ seen = {}
        /\ timer_callback_id = <<>>
        /\ observers = {}
        /\ timers = {}
        /\ lastEvent = NoEvent

\* what an event of the browser leaves alone
BrowserFrame ==
    /\ UNCHANGED <<nobs, value, min_value, max_value, is_playing, _loop, timer_id,
                   play_pause_button, buttons, called, framed, run>>
    /\ UNCHANGED <<sources, targets, source_pickable, target_pickable, warped,
                   msg0, msg1, _sources, vsources, vtargets, status, current_pid>>
    /\ UNCHANGED animationVars

\* the browser is as slider_function leaves the record B
BrowserShows(B) ==
    /\ slider' = B.slider
    /\ _oldk' = B._oldk
    /\ visible' = B.visible

\* Browser.play(dt): slider_function becomes an observer of "timer", a timer
\* of period dt is started and the event loop runs.  Called once.
BrowserPlay ==
    /\ nobs > 0
    /\ timers = {}
    /\ timer_callback_id' = <<add_callback(observers)>>
    /\ observers' = observers \cup {add_callback(observers)}
    /\ timers' = timers \cup {timer_create(timers)}
    /\ seen' = {_oldk[1]}
    /\ lastEvent' = [op |-> "play", arg |-> <<>>, value |-> _oldk[1], is_playing |-> FALSE]
    /\ UNCHANGED <<slider, _oldk, visible>>
    /\ BrowserFrame

\* the timer fires: the interactor calls the observer of "timer"
BrowserTimer ==
    /\ timers # {}
    /\ timer_callback_id # <<>> /\ timer_callback_id[1] \in observers
    /\ BrowserShows(slider_function(SelfBrowser))
    /\ seen' = seen \cup {slider_function(SelfBrowser)._oldk[1]}
    /\ lastEvent' = [op |-> "timer", arg |-> <<>>, value |-> _oldk[1], is_playing |-> FALSE]
    /\ UNCHANGED <<timer_callback_id, observers, timers>>
    /\ BrowserFrame

\* the user drags the slider to position h: the slider calls slider_function
SliderDragTo(h) ==
    LET D == [SelfBrowser EXCEPT !.slider = [@ EXCEPT !.value = h]]
    IN  /\ nobs > 0
        /\ BrowserShows(slider_function(D))
        /\ seen' = IF timers # {} THEN seen \cup {slider_function(D)._oldk[1]} ELSE seen
        /\ lastEvent' = [op |-> "slider", arg |-> <<h>>, value |-> _oldk[1], is_playing |-> FALSE]
        /\ UNCHANGED <<timer_callback_id, observers, timers>>
        /\ BrowserFrame

SliderDrag == \E h \in BrowserPositions : SliderDragTo(h)

\* a browser of one to MaxSlides slides.  The timer play() starts is a
\* repeating one, hence the weak fairness of its event; the user need not
\* ever touch the slider.
InitBrowser ==
    /\ \E n \in 1..MaxSlides : Browser(n)
    /\ value = 0
    /\ min_value = 0
    /\ max_value = 0
    /\ is_playing = FALSE
    /\ _loop = FALSE
    /\ timer_id = <<>>
    /\ play_pause_button = ""
    /\ buttons = FALSE
    /\ called = <<>>
    /\ framed = FALSE
    /\ run = <<>>
    /\ sources = <<>>
    /\ targets = <<>>
    /\ source_pickable = FALSE
    /\ target_pickable = FALSE
    /\ warped = FALSE
    /\ msg0 = ""
    /\ msg1 = ""
    /\ _sources = <<>>
    /\ vsources = <<>>
    /\ vtargets = <<>>
    /\ status = ""
    /\ current_pid = <<>>
    /\ Construct(DefaultResolution, One, 0)

NextBrowser ==
    \/ BrowserPlay
    \/ BrowserTimer
    \/ SliderDrag

SpecBrowser == InitBrowser /\ [][NextBrowser]_vars /\ WF_vars(BrowserTimer)

(***************************************************************************)
(* MorphPlotter.  A picked point is one of the points 1..MaxPoint; the     *)
(* keys modelled are those that read or write the landmark lists, the      *)
(* pickable flags or self.warped ("w", "g", "z", "Ctrl+s" and "q" touch    *)
(* none of them).                                                          *)
(***************************************************************************)
\* the points a click or a key press can pick
PointIds == 1..MaxPoint

\* the fields of the plotter the handlers read and write, as one record
SelfMorph ==
    [sources |-> sources, targets |-> targets, source_pickable |-> source_pickable,
     target_pickable |-> target_pickable, warped |-> warped, msg0 |-> msg0,
     msg1 |-> msg1]

\* Python's lst[:k]
SliceTo(lst, k) ==
    IF k >= 0 THEN SubSeq(lst, 1, IF k < Len(lst) THEN k ELSE Len(lst))
    ELSE SubSeq(lst, 1, IF Len(lst) + k > 0 THEN Len(lst) + k ELSE 0)

\* Python's lst.pop() on a list that is not empty
Popped(lst) == SubSeq(lst, 1, Len(lst) - 1)

\* MorphPlotter.update(): with auto_warping, four or more complete pairs
\* warp the source
update(M) ==
    IF Len(M.sources) = Len(M.targets) /\ Len(M.sources) > 3
    THEN [M EXCEPT !.warped = TRUE]
    ELSE M

\* on_click with evt.object the source (obj = "source") or the target
on_click(M, obj, p) ==
    IF obj = "source"
    THEN update([M EXCEPT !.sources = Append(@, p),
                          !.source_pickable = FALSE,
                          !.target_pickable = TRUE,
                          !.msg0 = "--->",
                          !.msg1 = "now pick a target point"])
    ELSE IF obj = "target"
    THEN update([M EXCEPT !.targets = Append(@, p),
                          !.source_pickable = TRUE,
                          !.target_pickable = FALSE,
                          !.msg0 = "now pick a source point",
                          !.msg1 = "<---"])
    ELSE M

\* key "C"
key_C(M) ==
    update([M EXCEPT !.sources = <<>>,
                     !.targets = <<>>,
                     !.msg0 = "CLEARED! Pick a point here",
                     !.msg1 = "",
                     !.source_pickable = TRUE,
                     !.target_pickable = FALSE])

\* a key "d" that drops the unpaired pick only
key_d_unpaired(M) ==
    LET s == Len(M.sources)
        t == Len(M.targets)
        P == IF s = t + 1 THEN [M EXCEPT !.sources = Popped(@)]
             ELSE IF t = s + 1 THEN [M EXCEPT !.targets = Popped(@)]
             ELSE M
    IN  IF s # t + 1 /\ t # s + 1 /\ (s = 0 \/ t = 0) THEN M
        ELSE update([P EXCEPT !.msg0 = "Last point deleted! Pick a point here",
                              !.msg1 = "",
                              !.source_pickable = TRUE,
                              !.target_pickable = FALSE])

\* key "d"
key_d(M) ==
    LET s == Len(M.sources)
        t == Len(M.targets)
        P == IF s = t + 1 THEN [M EXCEPT !.sources = Popped(@)]
             ELSE IF t = s + 1 THEN [M EXCEPT !.targets = Popped(@)]
             ELSE M
        n == IF Len(P.sources) < Len(P.targets) THEN Len(P.sources) ELSE Len(P.targets)
    IN  IF s # t + 1 /\ t # s + 1 /\ (s = 0 \/ t = 0) THEN M
        ELSE update([P EXCEPT !.sources = SliceTo(@, n - 1),
                              !.targets = SliceTo(@, n - 1),
                              !.msg0 = "Last point deleted! Pick a point here",
                              !.msg1 = "",
                              !.source_pickable = TRUE,
                              !.target_pickable = FALSE])

\* key "f" with evt.object obj and picked point p
key_f(M, obj, p) ==
    IF obj = "source" /\ Len(M.sources) = Len(M.targets)
    THEN update([M EXCEPT !.sources = Append(@, p), !.targets = Append(@, p)])
    ELSE M

\* key "m"
key_m(M) ==
    IF Len(M.sources) = Len(M.targets) /\ Len(M.sources) > 3
    THEN [M EXCEPT !.warped = TRUE]
    ELSE M

\* key "a": the pairs the auto-picking finds on the meshes are ps and pt
key_a(M, ps, pt) ==
    IF ~M.warped THEN M
    ELSE LET P == IF Len(M.sources) > Len(M.targets)
                  THEN [M EXCEPT !.sources = Popped(@)] ELSE M
         IN  update([P EXCEPT !.sources = @ \o ps,
                              !.targets = @ \o pt,
                              !.source_pickable = TRUE,
                              !.target_pickable = FALSE])

\* MorphPlotter.__init__(source, target)
MorphPlotter ==
    /\ sources = <<>>
    /\ targets = <<>>
    /\ source_pickable = TRUE
    /\ target_pickable = FALSE
    /\ warped = FALSE
    /\ msg0 = "Pick a point on the surface"
    /\ msg1 = ""

\* an event of the plotter: the handler has left the plotter as M; lastEvent
\* keeps the event and the lengths of the two lists before it
MorphEvent(op, M) ==
    /\ Len(M.sources) <= MaxPicks
    /\ Len(M.targets) <= MaxPicks
    /\ sources' = M.sources
    /\ targets' = M.targets
    /\ source_pickable' = M.source_pickable
    /\ target_pickable' = M.target_pickable
    /\ warped' = M.warped
    /\ msg0' = M.msg0
    /\ msg1' = M.msg1
    /\ lastEvent' = [op |-> op, arg |-> <<Len(sources), Len(targets)>>,
                     value |-> 0, is_playing |-> FALSE]
    /\ UNCHANGED <<value, min_value, max_value, is_playing, _loop, timer_id,
                   timer_callback_id, play_pause_button, slider, buttons, timers,
                   observers, called, framed, run>>
    /\ UNCHANGED <<nobs, _oldk, visible, seen, _sources, vsources, vtargets,
                   status, current_pid>>
    /\ UNCHANGED animationVars

\* a click picks the mesh that is pickable
ClickSource ==
    /\ source_pickable
    /\ \E p \in PointIds : MorphEvent("click", on_click(SelfMorph, "source", p))

ClickTarget ==
    /\ target_pickable
    /\ \E p \in PointIds : MorphEvent("click", on_click(SelfMorph, "target", p))

KeyC == MorphEvent("C", key_C(SelfMorph))

KeyD == MorphEvent("d", key_d(SelfMorph))

\* the mouse is over the pickable mesh, or over none
KeyF ==
    \E p \in PointIds :
        MorphEvent("f", key_f(SelfMorph,
                              IF source_pickable THEN "source"
                              ELSE IF target_pickable THEN "target" ELSE "", p))

KeyM == MorphEvent("m", key_m(SelfMorph))

\* auto-picking finds no pair or one pair
KeyA ==
    \E k \in 0..1 : \E ps \in [1..k -> PointIds], pt \in [1..k -> PointIds] :
        MorphEvent("a", key_a(SelfMorph, ps, pt))

InitMorph ==
    /\ MorphPlotter
    /\ nobs = 0
    /\ _oldk = <<>>
    /\ visible = <<>>
    /\ seen = {}
    /\ _sources = <<>>
    /\ vsources = <<>>
    /\ vtargets = <<>>
    /\ status = ""
    /\ current_pid = <<>>
    /\ NoPlayer
    /\ Construct(DefaultResolution, One, 0)

NextMorph ==
    \/ ClickSource
    \/ ClickTarget
    \/ KeyC
    \/ KeyD
    \/ KeyF
    \/ KeyM
    \/ KeyA

SpecMorph == InitMorph /\ [][NextMorph]_vars

(***************************************************************************)
(* MorphByLandmarkPlotter.  Points are the points 1..MaxPoint; moving a    *)
(* target point gives some point.  The keys modelled are those that read   *)
(* or write the point lists ("q", "r", "l", the step keys and "Ctrl+s"     *)
(* touch none of them).                                                    *)
(***************************************************************************)
\* the fields of the plotter the handlers read and write, as one record
SelfLandmark ==
    [sources |-> sources, targets |-> targets, _sources |-> _sources,
     vsources |-> vsources, vtargets |-> vtargets, status |-> status,
     current_pid |-> current_pid]

\* do_morph(): the lists are read back from the point clouds shown, the mesh
\* is warped, and the targets become the new sources
do_morph(L) ==
    [L EXCEPT !.sources = L.vtargets,
              !.targets = L.vtargets,
              !.vsources = L.vtargets]

\* _on_mouse_click with a picked point: pid is the id of the target point
\* closest to it
_on_mouse_click(L, pid) ==
    IF L.vtargets = <<>>
    THEN [L EXCEPT !.current_pid = <<-1>>,
                   !.status = "No point exists. Press o to place a point."]
    ELSE [L EXCEPT !.current_pid = <<pid>>,
                   !.status = "Selected point ID"]

\* key "o" over the mesh, p the point picked
fkey_o(L, p) ==
    [L EXCEPT !.sources = Append(@, p),
              !._sources = Append(@, p),
              !.targets = Append(@, p),
              !.status = "Added point",
              !.vsources = Append(L._sources, p),
              !.vtargets = Append(L.targets, p)]

\* key "c"
fkey_c(L) ==
    [L EXCEPT !.sources = <<>>,
              !.targets = <<>>,
              !._sources = <<>>,
              !.vsources = <<>>,
              !.vtargets = <<>>]

\* key "d"
fkey_d(L) ==
    IF Len(L.sources) = 0 \/ Len(L.targets) = 0
    THEN [L EXCEPT !.status = "No points to delete."]
    ELSE LET P == IF Len(L.sources) = Len(L.targets) + 1
                  THEN [L EXCEPT !.sources = Popped(@)]
                  ELSE IF Len(L.targets) = Len(L.sources) + 1
                  THEN [L EXCEPT !.targets = Popped(@)]
                  ELSE L
         IN  [P EXCEPT !._sources = P.sources,
                       !.vsources = P.sources,
                       !.vtargets = P.targets]

\* the position in a list of n points that Python's index pid stands for,
\* 0 where it raises IndexError
Position(pid, n) ==
    IF 0 <= pid /\ pid < n THEN pid + 1
    ELSE IF pid < 0 /\ -pid <= n THEN n + pid + 1 ELSE 0

\* a move key: the target point picked moves to q and, morphing_on_change
\* being set, the mesh is morphed
fkey_move(L, q) ==
    IF L.current_pid = <<>>
    THEN [L EXCEPT !.status = "No point picked. Click to pick a point first."]
    ELSE IF Position(L.current_pid[1], Len(L.targets)) = 0 THEN L
    ELSE do_morph([L EXCEPT
                      !.targets = [L.targets EXCEPT
                                      ![Position(L.current_pid[1], Len(L.targets))] = q],
                      !.status = "Moved point ID",
                      !.vtargets = [L.targets EXCEPT
                                       ![Position(L.current_pid[1], Len(L.targets))] = q]])

\* key "m"
fkey_m(L) == do_morph(L)

\* MorphByLandmarkPlotter.__init__(msh, init_pts)
MorphByLandmarkPlotter(init_pts) ==
    /\ sources = init_pts
    /\ targets = init_pts
    /\ _sources = init_pts
    /\ vsources = init_pts
    /\ vtargets = init_pts
    /\ status = "No point selected."
    /\ current_pid = <<>>

\* an event of the plotter: the handler has left the plotter as L; lastEvent
\* keeps the event and the lengths of the two lists before it
LandmarkEvent(op, L) ==
    /\ Len(L.sources) <= MaxPicks
    /\ sources' = L.sources
    /\ targets' = L.targets
    /\ _sources' = L._sources
    /\ vsources' = L.vsources
    /\ vtargets' = L.vtargets
    /\ status' = L.status
    /\ current_pid' = L.current_pid
    /\ lastEvent' = [op |-> op, arg |-> <<Len(sources), Len(targets)>>,
                     value |-> 0, is_playing |-> FALSE]
    /\ UNCHANGED <<value, min_value, max_value, is_playing, _loop, timer_id,
                   timer_callback_id, play_pause_button, slider, buttons, timers,
                   observers, called, framed, run>>
    /\ UNCHANGED <<nobs, _oldk, visible, seen, source_pickable, target_pickable,
                   warped, msg0, msg1>>
    /\ UNCHANGED animationVars

\* a click near the target point pid, or on an empty scene
MouseClick ==
    \E pid \in 0..(IF vtargets = <<>> THEN 0 ELSE Len(vtargets) - 1) :
        LandmarkEvent("click", _on_mouse_click(SelfLandmark, pid))

LandmarkKeyO == \E p \in PointIds : LandmarkEvent("o", fkey_o(SelfLandmark, p))

LandmarkKeyC == LandmarkEvent("c", fkey_c(SelfLandmark))

LandmarkKeyD == LandmarkEvent("d", fkey_d(SelfLandmark))

LandmarkKeyMove == \E q \in PointIds : LandmarkEvent("move", fkey_move(SelfLandmark, q))

LandmarkKeyM == LandmarkEvent("m", fkey_m(SelfLandmark))

\* the initial points: none, one or two
InitLandmark ==
    /\ \E init_pts \in {<<>>, <<1>>, <<1, 2>>} : MorphByLandmarkPlotter(init_pts)
    /\ nobs = 0
    /\ _oldk = <<>>
    /\ visible = <<>>
    /\ seen = {}
    /\ source_pickable = FALSE
    /\ target_pickable = FALSE
    /\ warped = FALSE
    /\ msg0 = ""
    /\ msg1 = ""
    /\ NoPlayer
    /\ Construct(DefaultResolution, One, 0)

NextLandmark ==
    \/ MouseClick
    \/ LandmarkKeyO
    \/ LandmarkKeyC
    \/ LandmarkKeyD
    \/ LandmarkKeyMove
    \/ LandmarkKeyM

SpecLandmark == InitLandmark /\ [][NextLandmark]_vars

(***************************************************************************)
(* Properties.                                                             *)
(***************************************************************************)
\* the transitions that expand the sample set of _parse into Events
SampleOps ==
    {"fade_in", "fade_out", "change_alpha_between", "change_color", "change_backcolor",
     "change_line_width", "change_line_color", "change_lighting", "move", "rotate",
     "scale"}

\* round(x / time_resolution) for x >= 0, halves up: the n with
\* (n - 1/2) * time_resolution <= x < (n + 1/2) * time_resolution
RoundHalfUp(x) ==
    CHOOSE n \in 0..(x \div time_resolution + 1) :
        /\ (2 * n - 1) * time_resolution <= 2 * x
        /\ 2 * x < (2 * n + 1) * time_resolution

\* the Events call c appended, while no play() has sorted the list
EventsOf(c) == SubSeq(events, c.first, c.first + c.count - 1)

\* a declaration call that ran its booking branch and returned normally
Booked(c) == c.booking /\ c.raised = ""

\* C1: a booking-mode call of fade_in, or of any other transition that
\* expands the sample set, with a duration D >= 0 appends exactly
\* round(D / time_resolution) + 1 Events, one per sample time, and exactly
\* one Event when the duration quantizes to 0.
C1_EventCount ==
    \A i \in 1..Len(calls) :
        LET c == calls[i]
        IN  (Booked(c) /\ c.op \in SampleOps /\ c.duration_in >= 0) =>
                /\ c.count = RoundHalfUp(c.duration_in) + 1
                /\ (RoundHalfUp(c.duration_in) = 0 => c.count = 1)
                /\ (i = Len(calls) => Len(events) = c.first + c.count - 1)
                /\ (nplays = 0 =>
                       \A k \in 1..c.count :
                           EventsOf(c)[k].time = c.t + (k - 1) * time_resolution)

\* a rotate booked over two time steps has appended three Events
C1_Witness ==
    /\ Len(calls) = 1
    /\ Booked(calls[1])
    /\ calls[1].op = "rotate"
    /\ calls[1].duration_in = 2 * time_resolution
    /\ Len(events) = 3

\* the scalar payloads of the Events call c appended, in booking order
\* (ascending scheduled_time)
Payloads(c) == [k \in 1..c.count |-> EventsOf(c)[k].payload.vals[1][1]]

\* C2: the payloads of the Events a booked fade_in appends, read in
\* ascending scheduled_time, are non-decreasing, the first is 0.0 and the
\* last is 1.0, for any start time, duration and resolution.
C2_FadeInPayloads ==
    \A i \in 1..Len(calls) :
        LET c == calls[i]
        IN  (nplays = 0 /\ Booked(c) /\ c.op = "fade_in") =>
                /\ c.count >= 1
                /\ Payloads(c)[1] = Zero
                /\ Payloads(c)[c.count] = One
                /\ \A k \in 1..(c.count - 1) : RatLeq(Payloads(c)[k], Payloads(c)[k + 1])

\* C3: the payloads of the Events a booked fade_out appends, read in
\* ascending scheduled_time, are non-increasing, the first is 1.0 and the
\* last is 0.0.
C3_FadeOutPayloads ==
    \A i \in 1..Len(calls) :
        LET c == calls[i]
        IN  (nplays = 0 /\ Booked(c) /\ c.op = "fade_out") =>
                /\ c.count >= 1
                /\ Payloads(c)[1] = One
                /\ Payloads(c)[c.count] = Zero
                /\ \A k \in 1..(c.count - 1) : RatLeq(Payloads(c)[k + 1], Payloads(c)[k])

\* the value at sample k of n + 1 evenly spaced samples on the line from y0
\* (sample 1) to y1 (sample n + 1), n >= 1
OnLine(y0, y1, k, n) == RatAdd(y0, RatMul(RatSub(y1, y0), Rat(k - 1, n)))

\* C4: a booked change_color to colour c2 starting at t with duration D has,
\* for every target, the target's colour at booking time as the payload of
\* the Event at time t, c2 as the payload of the Event at time t + D, and
\* in between every channel on the line between the two.
C4_ColorPayloads ==
    \A i \in 1..Len(calls) :
        LET c == calls[i]
        IN  (nplays = 0 /\ Booked(c) /\ c.op = "change_color") =>
                \A j \in 1..Len(c.acts), ch \in 1..3 :
                    LET c1 == props[c.acts[j]].color[ch]
                        c2 == get_color("red")[ch]
                        first == EventsOf(c)[1]
                        last == EventsOf(c)[c.count]
                    IN  /\ first.time = c.t
                        /\ first.payload.vals[j][ch] = c1
                        /\ last.time = c.t + c.nsteps * time_resolution
                        /\ last.payload.vals[j][ch] = c2
                        /\ \A k \in 2..(c.count - 1) :
                               EventsOf(c)[k].payload.vals[j][ch] = OnLine(c1, c2, k, c.nsteps)

\* the properties play()'s loop leaves when it applies the Events of evs, in
\* the order of evs, from index k on, to objects with properties P
RECURSIVE ApplyFrom(_, _, _)
ApplyFrom(evs, P, k) ==
    IF k > Len(evs) THEN P
    ELSE ApplyFrom(evs, Perform(evs[k].action, P, evs[k].targets, evs[k].payload), k + 1)

\* the final properties of play() on the Event list evs
Terminal(evs, P) == ApplyFrom(SortedEvents(evs), P, 1)

\* the rearrangements of 1..n
Rearrangements(n) == {f \in [1..n -> 1..n] : \A a, b \in 1..n : f[a] = f[b] => a = b}

\* evs rearranged by f
Rearranged(evs, f) == [k \in 1..Len(evs) |-> evs[f[k]]]

\* f keeps Events with equal scheduled_time in their order in evs
KeepsTies(evs, f) ==
    \A a, b \in 1..Len(evs) :
        (a < b /\ evs[f[a]].time = evs[f[b]].time) => f[a] < f[b]

\* play() has run to its end on the list booked
Played == nplays > 0 /\ pc = "idle" /\ interactive

\* C5 as stated: after play(), the objects' properties are those play()
\* leaves on any permutation of the Event list it was given.
C5_AnyPermutation ==
    (Played /\ Len(booked) <= MaxPermLen) =>
        \A f \in Rearrangements(Len(booked)) :
            Terminal(Rearranged(booked, f), props0) = props

\* C5 amended: after play(), the objects' properties are those play() leaves
\* on any permutation of the Event list that keeps the Events with equal
\* scheduled_time in their booked order.
C5_TiePreservingPermutation ==
    (Played /\ Len(booked) <= MaxPermLen) =>
        \A f \in Rearrangements(Len(booked)) :
            KeepsTies(booked, f) => Terminal(Rearranged(booked, f), props0) = props

\* play() ended on a list that was booked out of time order, with two Events
\* at one time, and changed an object
C5_Witness ==
    /\ Played
    /\ Len(booked) = 4
    /\ booked # events
    /\ \E a, b \in 1..4 : a < b /\ booked[a].time = booked[b].time
    /\ props # props0

\* x / time_resolution rounded to the nearest integer, halves up: the n with
\* (n - 1/2) * time_resolution <= x < (n + 1/2) * time_resolution
Nearest(x) ==
    CHOOSE n \in (0 - Abs(x) \div time_resolution - 1)..(Abs(x) \div time_resolution + 1) :
        /\ (2 * n - 1) * time_resolution <= 2 * x
        /\ 2 * x < (2 * n + 1) * time_resolution

\* what C6 says of the call c of _parse
QuantizedToNearest(c) ==
    /\ c.t = Nearest(c.t_in) * time_resolution
    /\ c.nsteps = Nearest(c.duration_in)
    /\ Len(c.rng) = c.nsteps + 1
    /\ \A k \in 1..Len(c.rng) : c.rng[k] = c.t + (k - 1) * time_resolution
    /\ ((time_resolution = 2000 /\ c.duration_in = 7000) => (c.nsteps = 4 /\ Len(c.rng) = 5))

\* C6 as stated: _parse quantizes every start time and every duration to the
\* nearest multiple of time_resolution, halves rounding up, with
\* nsteps = round(duration / time_resolution) (4, and 5 samples, for 0.07 at
\* 0.02), and returns nsteps + 1 evenly spaced sample times from the
\* quantized start to the quantized start + nsteps * time_resolution.
C6_QuantizeAny ==
    \A i \in 1..Len(calls) :
        (calls[i].op = "_parse" /\ calls[i].raised = "") => QuantizedToNearest(calls[i])

\* C6 amended: the same, for start times and durations that are not negative.
C6_QuantizeNonNegative ==
    \A i \in 1..Len(calls) :
        (calls[i].op = "_parse" /\ calls[i].raised = "" /\ calls[i].t_in >= 0
            /\ calls[i].duration_in >= 0) => QuantizedToNearest(calls[i])

\* _parse was given the start time 0.015 and the duration 0.07 at
\* resolution 0.02 and returned five sample times from 0.02 on
C6_Witness ==
    /\ time_resolution = 2000
    /\ Len(calls) = 1
    /\ calls[1].op = "_parse"
    /\ calls[1].t_in = 1500
    /\ calls[1].duration_in = 7000
    /\ calls[1].rng = <<2000, 4000, 6000, 8000, 10000>>

\* fade_in(A, t=0, duration=2 time steps) was booked, then change_color("red")
\* was called with no target, no start time and no duration
C7_Scenario ==
    /\ Len(calls) = 2
    /\ nplays = 0
    /\ Booked(calls[1])
    /\ calls[1].op = "fade_in"
    /\ calls[1].acts = <<"A">>
    /\ calls[1].t_in = 0
    /\ calls[1].duration_in = 2 * time_resolution
    /\ calls[2].op = "change_color"
    /\ lastArgs.tag = "None"
    /\ lastArgs.t = <<>>
    /\ lastArgs.duration = <<>>

\* the second of two declarations was called without a start time
OmittedStart ==
    /\ Len(calls) = 2
    /\ Booked(calls[1])
    /\ calls[2].booking
    /\ lastArgs.t = <<>>

\* C7 as stated: the change_color books its Events on A and its first Event
\* is scheduled at t = 2, the end of the fade_in; generally an omitted start
\* time continues from the previous declaration's start + duration.
C7_ContinuesFromEnd ==
    /\ C7_Scenario =>
          /\ Booked(calls[2])
          /\ \A k \in 1..calls[2].count : EventsOf(calls[2])[k].targets = <<"A">>
          /\ EventsOf(calls[2])[1].time = 2 * time_resolution
    /\ OmittedStart => calls[2].t = calls[1].t + calls[1].nsteps * time_resolution

\* C7 amended: the change_color books its Events on A and its first Event is
\* scheduled at t = 0, the start of the fade_in, and it lasts as long as the
\* fade_in; generally an omitted start time is the previous declaration's
\* quantized start time.
C7_ContinuesFromStart ==
    /\ C7_Scenario =>
          /\ Booked(calls[2])
          /\ \A k \in 1..calls[2].count : EventsOf(calls[2])[k].targets = <<"A">>
          /\ EventsOf(calls[2])[1].time = 0
          /\ calls[2].count = 3
    /\ OmittedStart => calls[2].t = calls[1].t

\* the scenario was booked at resolution 1.0: six Events, the last three a
\* colour change of A that starts at 0
C7_Witness ==
    /\ C7_Scenario
    /\ time_resolution = UnitResolution
    /\ Len(events) = 6
    /\ events[4].action = "change_color"
    /\ events[4].time = 0

\* at resolution 1.0, fade_in([A], t=0, duration=1) was booked and then
\* fade_out([A], t=1, duration=1)
C8_Scenario ==
    /\ time_resolution = UnitResolution
    /\ Len(calls) = 2
    /\ Booked(calls[1])
    /\ calls[1].op = "fade_in"
    /\ calls[1].acts = <<"A">>
    /\ calls[1].t_in = 0
    /\ calls[1].duration_in = UnitResolution
    /\ Booked(calls[2])
    /\ calls[2].op = "fade_out"
    /\ calls[2].acts = <<"A">>
    /\ calls[2].t_in = UnitResolution
    /\ calls[2].duration_in = UnitResolution

\* C8: the scenario leaves exactly 4 Events, at times 0, 1, 1, 2 with
\* payloads 0.0, 1.0, 1.0, 0.0 in that order, all targeting A.
C8_FourEvents ==
    C8_Scenario =>
        events = <<Event(0, "fade_in", <<"A">>, Scalar(Zero)),
                   Event(UnitResolution, "fade_in", <<"A">>, Scalar(One)),
                   Event(UnitResolution, "fade_out", <<"A">>, Scalar(One)),
                   Event(2 * UnitResolution, "fade_out", <<"A">>, Scalar(Zero))>>

\* the scenario was booked with every argument given, and not yet played
C8_Witness ==
    /\ C8_Scenario
    /\ nplays = 0
    /\ lastArgs = [op |-> "fade_out", tag |-> "seq", t |-> <<UnitResolution>>,
                   duration |-> <<UnitResolution>>]
    /\ Len(events) = 4

\* play() was called on the four Events of the scenario
ScenarioPlayed == C8_Scenario /\ nplays > 0 /\ Len(booked) = 4

\* C9: playing the scenario renders exactly 3 frames in total: none after
\* the Event at time 0, one after the first Event at time 1, none after the
\* second Event at time 1, one after the Event at time 2, and the final one.
C9_ThreeFrames ==
    ScenarioPlayed =>
        /\ (pc = "loop" /\ idx \in {1, 2}) => shows = 0
        /\ (pc = "loop" /\ idx \in {3, 4}) => shows = 1
        /\ (pc = "loop" /\ idx = 5) => shows = 2
        /\ Played => (shows = 3 /\ vd.frames = 3)

\* the scenario was played to its end
C9_Witness == ScenarioPlayed /\ Played /\ shows = 3 /\ vd.frames = 3

\* C10 as stated: playing the scenario sets A's alpha to the payloads in
\* order, for any initial alpha: 0.0 after the first Event, 1.0 after the
\* second and the third, 0.0 after the fourth.
C10_AlphaFollowsPayloads ==
    ScenarioPlayed =>
        /\ (pc = "loop" /\ idx = 2) => props["A"].alpha = Zero
        /\ (pc = "loop" /\ idx \in {3, 4}) => props["A"].alpha = One
        /\ (pc = "loop" /\ idx = 5) => props["A"].alpha = Zero
        /\ Played => props["A"].alpha = Zero

\* C10 amended: the first Event (fade_in, payload 0.0) leaves A's alpha at
\* its initial value, which is 0.0 only if A started at 0.0; A's alpha is
\* 1.0 after the second and the third Event and 0.0 after the fourth.
C10_AlphaNeverLoweredByFadeIn ==
    ScenarioPlayed =>
        /\ (pc = "loop" /\ idx = 2) => props["A"].alpha = props0["A"].alpha
        /\ (pc = "loop" /\ idx \in {3, 4}) => props["A"].alpha = One
        /\ (pc = "loop" /\ idx = 5) => props["A"].alpha = Zero
        /\ Played => props["A"].alpha = Zero

\* the first Event of the scenario was applied to an A that started at 0.5
C10_Witness ==
    /\ ScenarioPlayed
    /\ pc = "loop"
    /\ idx = 2
    /\ props0["A"].alpha = Rat(1, 2)
    /\ props["A"].alpha = Rat(1, 2)

\* play() was called on an empty Event list and is over
EmptyListPlayed == nplays > 0 /\ pc = "idle" /\ booked = <<>>

\* C11: play() on a scheduler with no booked Event and no total_duration
\* does not fail: it reaches its end having rendered exactly one frame, and
\* the video was opened, given that frame and closed.
C11_EmptyListPlays ==
    EmptyListPlayed =>
        /\ interactive
        /\ shows = 1
        /\ vd.state = "closed"
        /\ vd.frames = 1

\* the latest declaration call was made in booking mode without targets, and
\* no call before it supplied any
NoTargetsEver ==
    /\ Len(calls) >= 1
    /\ calls[Len(calls)].booking
    /\ lastArgs.tag = "None"
    /\ \A i \in 1..(Len(calls) - 1) : calls[i].acts = <<>>

\* C12: a declaration call that supplies no targets, when no earlier call
\* supplied targets, raises to the caller and appends no Event.
C12_MissingTargetsAbort ==
    NoTargetsEver =>
        LET c == calls[Len(calls)]
        IN  /\ c.raised = "RuntimeError"
            /\ c.count = 0
            /\ Len(events) = c.first - 1
            /\ objects = <<>>
            /\ lastActs = <<>>

\* a move without targets was the first call and raised
C12_Witness ==
    /\ NoTargetsEver
    /\ Len(calls) = 1
    /\ lastArgs.op = "move"
    /\ events = <<>>
    /\ calls[1].raised = "RuntimeError"

\* the latest call was a booking-mode move, rotate or mesh_erode that got
\* targets from _parse, more than one of them
SeveralTargets ==
    /\ Len(calls) >= 1
    /\ calls[Len(calls)].booking
    /\ calls[Len(calls)].op \in {"move", "rotate", "mesh_erode"}
    /\ calls[Len(calls)].raised # "RuntimeError"
    /\ Len(calls[Len(calls)].acts) > 1

\* C13: move, rotate and mesh_erode called in booking mode with more than
\* one target raise to the caller and append no Event.
C13_SeveralTargetsAbort ==
    SeveralTargets =>
        /\ calls[Len(calls)].raised # ""
        /\ calls[Len(calls)].count = 0
        /\ Len(events) = calls[Len(calls)].first - 1

\* a step that is a booking-mode change_lighting call with targets and a
\* style that is none of metallic, plastic, shiny, glossy, default
UnknownLightingStyleCall ==
    /\ bookingMode
    /\ \E st \in StyleInputs, acts \in ActsInputs, t \in TimeInputs, d \in DurationInputs :
          /\ ~KnownStyle(st)
          /\ ~MissingTargets(acts)
          /\ change_lighting(st, acts, t, d)

\* a step that is a booking-mode move call with a target and a style that is
\* neither linear nor quad
UnknownMoveStyleCall ==
    /\ bookingMode
    /\ \E act \in SingleInputs, pt \in PointInputs, t \in TimeInputs, d \in DurationInputs,
          st \in MoveStyleInputs :
          /\ st \notin {"linear", "quad"}
          /\ ~MissingTargets(act)
          /\ move(act, pt, t, d, st)

\* C14: a change_lighting call with an unrecognized style, and a move call
\* with an unrecognized style, proceeds without aborting: it returns normally
\* to the caller.
C14_UnknownStyleProceeds ==
    [][(UnknownLightingStyleCall \/ UnknownMoveStyleCall) => raised' = ""]_vars

\* C15: whenever play() opened the video writer, the writer is closed once
\* play() is left, whether it completed or an exception escaped its loop.
C15_VideoClosedOnExit == (pc = "idle" /\ nplays > 0) => vd.state # "open"

\* where the i-th Event of evs stands in the stable time-sort of evs: behind
\* the earlier Events and the Events of its own time declared before it
StablePosition(evs, i) ==
    Cardinality({j \in 1..Len(evs) : evs[j].time < evs[i].time})
      + Cardinality({j \in 1..i : evs[j].time = evs[i].time})

\* C16: during one play() every booked Event is applied exactly once, in
\* ascending scheduled_time, Events of equal scheduled_time in the order of
\* their declaration: the Events applied so far are the first ones of the
\* stable time-sort of the booked list, and all of it once play() is over.
C16_AppliedOnceInStableOrder ==
    /\ (pc = "loop" \/ Played) =>
          \A i \in 1..Len(booked) :
              StablePosition(booked, i) <= Len(applied) =>
                  applied[StablePosition(booked, i)] = booked[i]
    /\ pc = "loop" => Len(applied) = idx - 1
    /\ Played => Len(applied) = Len(booked)

\* play() is over on a list booked out of time order in which two different
\* Events share one time
C16_Witness ==
    /\ Played
    /\ Len(applied) >= 3
    /\ applied # booked
    /\ \E a, b \in 1..Len(booked) :
          a < b /\ booked[a].time = booked[b].time /\ booked[a] # booked[b]

\* a step of play()'s loop that renders a frame
FrameRendered == pc = "loop" /\ pc' = "loop" /\ shows' = shows + 1

\* the Events of evs scheduled at or before tt, in the order of evs
UpTo(evs, tt) == SelectSeq(evs, LAMBDA e : e.time <= tt)

\* C17: all Events that share one scheduled_time are applied before the
\* frame for that time is rendered: when the loop renders a frame after an
\* Event, no Event of the same time is still to be applied, and the frame
\* shows the effect of every Event scheduled at or before that time.
C17_FrameAfterAllTies ==
    [][FrameRendered =>
          /\ \A k \in (idx + 1)..Len(events) : events[k].time > events[idx].time
          /\ props' = ApplyFrom(UpTo(events, events[idx].time), props0, 1)]_vars

\* a step that is a declaration call
DeclarationCall == Len(calls') = Len(calls) + 1

\* C18: during the playback loop bookingMode is false; after play() has
\* returned bookingMode is true, so that a declaration call made then books:
\* it changes no object and, unless it raises, appends its Events.
C18_BookingModeRestored ==
    /\ [](pc = "loop" => ~bookingMode)
    /\ [](Played => bookingMode)
    /\ [][(Played /\ DeclarationCall) =>
             LET c == calls'[Len(calls')]
             IN  /\ c.booking
                 /\ props' = props
                 /\ SubSeq(events', 1, Len(events)) = events
                 /\ Len(events') = Len(events) + c.count
                 /\ (c.raised = "" => c.count >= 1)]_vars

\* a fade_out was booked after a play() of two Events had returned
C18_Witness ==
    /\ Played
    /\ bookingMode
    /\ Len(booked) = 2
    /\ Len(calls) = 2
    /\ calls[2].op = "fade_out"
    /\ calls[2].booking
    /\ calls[2].first = 3
    /\ Len(events) = 4

\* how many times e stands in the list evs
Count(evs, e) == Cardinality({k \in 1..Len(evs) : evs[k] = e})

\* a step that is the call of play()
PlayCalled == nplays' = nplays + 1

\* C19: play() neither removes, adds nor alters Events. Calling it leaves
\* the list in its stable time-sorted order, the loop and the end of play()
\* leave the list as it is, so every Event a play() applied is in the list
\* the next play() is given, and a play() that returns has applied every
\* Event of its list.
C19_PlayKeepsEvents ==
    /\ [][PlayCalled =>
             /\ Len(events') = Len(events)
             /\ \A i \in 1..Len(events) : events'[StablePosition(events, i)] = events[i]
             /\ \A k \in 1..Len(applied) :
                    Count(applied, applied[k]) <= Count(events, applied[k])]_vars
    /\ [][pc = "loop" => events' = events]_vars
    /\ [](Played => \A k \in 1..Len(booked) :
                        Count(applied, booked[k]) = Count(booked, booked[k]))

\* a second play() has returned: it applied four Events, two of them booked
\* after the first play(), two of them booked before it
C19_Witness ==
    /\ Played
    /\ nplays = 2
    /\ Len(calls) = 2
    /\ Booked(calls[1])
    /\ Booked(calls[2])
    /\ calls[1].count = 2
    /\ calls[2].count = 2
    /\ Len(applied) = 4
    /\ booked # events

\* the call c got its targets through _parse
Parsed(c) == c.booking /\ c.raised \notin {"RuntimeError", "ValueError"}

\* C20: after any sequence of booking-mode declaration calls every target
\* that _parse was given or took over from the call before is in
\* self.objects exactly once, and self.objects holds nothing else.
C20_RegisteredOnce ==
    /\ \A i \in 1..Len(calls) :
          Parsed(calls[i]) =>
              \A k \in 1..Len(calls[i].acts) : Count(objects, calls[i].acts[k]) = 1
    /\ \A n \in 1..Len(objects) :
          /\ Count(objects, objects[n]) = 1
          /\ \E i \in 1..Len(calls) : Parsed(calls[i]) /\ InSeq(objects[n], calls[i].acts)

\* [A] was the target of one call and [A, B] of the next
C20_Witness ==
    /\ Len(calls) = 2
    /\ Parsed(calls[1])
    /\ Parsed(calls[2])
    /\ calls[1].acts = <<"A">>
    /\ calls[2].acts = <<"A", "B">>
    /\ objects = <<"A", "B">>

\* the declaration methods
DeclaredOps ==
    {"fade_in", "fade_out", "change_alpha_between", "change_color", "change_backcolor",
     "change_to_wireframe", "change_to_surface", "change_line_width",
     "change_line_color", "change_lighting", "move", "rotate", "scale", "mesh_erode"}

\* C21: in booking mode no declaration call changes a visual property of any
\* object: such a call leaves every object's properties, the playback
\* registers, the mode flag and the configuration as they are; only the
\* Event list, the remembered time, duration and targets and the
\* render-object list may change.
C21_BookingChangesNoObject ==
    [][(DeclarationCall /\ bookingMode) =>
          /\ calls'[Len(calls')].op \in DeclaredOps
          /\ calls'[Len(calls')].booking
          /\ props' = props
          /\ UNCHANGED <<performers, inputvalues, bookingMode, total_duration,
                         time_resolution, video_filename>>]_vars

\* a booking call has appended Events that would change its targets, and
\* the objects are as they were constructed
C21_Witness ==
    /\ Len(calls) = 1
    /\ Booked(calls[1])
    /\ calls[1].op \in {"move", "scale", "fade_out", "change_color"}
    /\ calls[1].count >= 2
    /\ Len(events) = calls[1].count
    /\ nplays = 0
    /\ props = props0
    /\ Perform(events[Len(events)].action, props, events[Len(events)].targets,
               events[Len(events)].payload) # props

\* v clamped into lo..hi
Clamp(v, lo, hi) == IF v < lo THEN lo ELSE IF v > hi THEN hi ELSE v

\* the player's play state: the flag, its timer, the button
PlayState == <<is_playing, timer_id, timers, play_pause_button>>

\* the player is paused: no timer of its own is live, the button shows play
Paused ==
    /\ ~is_playing
    /\ timer_id = <<>>
    /\ timers = {}
    /\ play_pause_button = "PLAY_SYMBOL"

\* C22: set_frame(v) with loop=True wraps around: v below min_value becomes
\* max_value - 1, v at or above max_value becomes min_value, any other v is
\* taken as it is, and the play state is left alone; with loop=False the
\* frame becomes v clamped into [min_value, max_value - 1] and the player is
\* paused when v is below min_value or at or above max_value - 1.
C22_SetFrameWrapsOrClamps ==
    [][\A v \in FrameInputs :
          SetFrameCall(v) =>
              IF _loop
              THEN /\ v < min_value => value' = max_value - 1
                   /\ v >= max_value => value' = min_value
                   /\ (min_value <= v /\ v < max_value) => value' = v
                   /\ UNCHANGED PlayState
              ELSE /\ value' = Clamp(v, min_value, max_value - 1)
                   /\ (min_value < max_value =>
                          min_value <= value' /\ value' <= max_value - 1)
                   /\ (v < min_value \/ v >= max_value - 1) => Paused']_vars

\* a looping player that was playing was asked for a frame past the end: it
\* is at its first frame and still playing
C22_Witness ==
    /\ _loop
    /\ min_value < max_value - 1
    /\ lastEvent.op = "set_frame"
    /\ lastEvent.arg[1] >= max_value
    /\ lastEvent.value = max_value - 1
    /\ lastEvent.is_playing
    /\ value = min_value
    /\ called = <<min_value>>
    /\ is_playing
    /\ timer_id # <<>>

\* C23: toggle switches between play and pause: in every reachable state a
\* toggle leaves is_playing the negation of what it was, leaves the button
\* showing the pause symbol exactly when the player is playing, and a toggle
\* that follows a toggle gives is_playing the value it had before the first.
C23_ToggleNegates ==
    [][Toggle =>
          /\ is_playing' = ~is_playing
          /\ (play_pause_button' = "PAUSE_SYMBOL") <=> is_playing'
          /\ play_pause_button' \in {"PAUSE_SYMBOL", "PLAY_SYMBOL"}
          /\ (lastEvent.op = "toggle" => is_playing' = lastEvent.is_playing)]_vars

\* a playing player was toggled: it is paused and the button shows play
C23_Witness ==
    /\ lastEvent.op = "toggle"
    /\ lastEvent.is_playing
    /\ ~is_playing
    /\ play_pause_button = "PLAY_SYMBOL"
    /\ timer_id = <<>>

\* stop() has been called: it alone takes the buttons out of the renderer
Stopped == timer_callback_id # <<>> /\ ~buttons

\* C24: when stop() returns no timer of the player is live (timer_id is
\* None) and _handle_timer is no longer an observer of "timer"; from then on
\* it is never an observer again, so a timer event that arrives later (a
\* timer made by a later resume() included) neither changes the frame value
\* nor calls the user function.
C24_StopEndsTimerEvents ==
    /\ [][Stop => (timer_id' = <<>> /\ timers' = {}
                   /\ timer_callback_id[1] \notin observers')]_vars
    /\ [](Stopped => timer_callback_id[1] \notin observers)
    /\ [][(Stopped /\ TimerEvent) =>
             (value' = value /\ slider' = slider /\ called' = <<>>)]_vars

\* a playing player was stopped, resumed later, and a timer event of the
\* new timer has arrived: the frame is the one stop() left
C24_Witness ==
    /\ Stopped
    /\ lastEvent.op = "timer"
    /\ timers # {}
    /\ is_playing
    /\ value = lastEvent.value
    /\ min_value <= value
    /\ value < max_value - 1
    /\ called = <<>>

\* the calls among the first n that got through _parse
ParsedBefore(n) == {i \in 1..n : Parsed(calls[i])}

\* the latest of them
LatestParsed(n) == CHOOSE i \in ParsedBefore(n) : \A j \in ParsedBefore(n) : j <= i

\* C25: in a booking declaration call an omitted start time is the quantized
\* start time of the latest call before it that got through _parse (0.0 if
\* there is none), an omitted duration is that call's quantized duration
\* (0.0 if none), omitted targets are that call's targets; and what the call
\* leaves for the next one is its own quantized start time, its own
\* quantized duration and its own targets.
C25_OmittedArgumentsDefault ==
    [][(DeclarationCall /\ bookingMode) =>
          LET c == calls'[Len(calls')]
              a == lastArgs'
              n == Len(calls)
              none == ParsedBefore(n) = {}
              prev == calls[LatestParsed(n)]
          IN  /\ a.t = <<>> => c.t_in = (IF none THEN 0 ELSE prev.t)
              /\ a.duration = <<>> =>
                    c.duration_in = (IF none THEN 0 ELSE prev.nsteps * time_resolution)
              /\ (a.tag = "None" /\ ~none) => (c.acts = prev.acts /\ Parsed(c))
              /\ (a.tag = "None" /\ none) => c.raised = "RuntimeError"
              /\ Parsed(c) =>
                    /\ lastT' = <<RoundHalfUp(c.t_in) * time_resolution>>
                    /\ lastDuration' = <<RoundHalfUp(c.duration_in) * time_resolution>>
                    /\ lastActs' = c.acts
              /\ ~Parsed(c) => UNCHANGED <<lastT, lastDuration, lastActs>>]_vars

\* a call at one time step lasting half a step, then a call with nothing
\* given: it starts at one time step, lasts one step (the quantized half
\* step) and has the targets of the first
C25_Witness ==
    /\ Len(calls) = 2
    /\ Parsed(calls[1])
    /\ Parsed(calls[2])
    /\ calls[1].t_in = time_resolution
    /\ 2 * calls[1].duration_in = time_resolution
    /\ lastArgs.tag = "None"
    /\ lastArgs.t = <<>>
    /\ lastArgs.duration = <<>>
    /\ calls[2].t_in = time_resolution
    /\ calls[2].duration_in = time_resolution
    /\ calls[2].acts = calls[1].acts
    /\ lastT = <<time_resolution>>
    /\ lastDuration = <<time_resolution>>
    /\ nplays = 0

\* a step that is one iteration of play()'s loop run to its end
EventProcessed == pc = "loop" /\ pc' = "loop" /\ idx' = idx + 1

\* the time between the k-th Event of evs and the one processed before it
\* (play() starts its clock at 0)
GapBefore(evs, k) == evs[k].time - (IF k = 1 THEN 0 ELSE evs[k - 1].time)

\* the Events among the first n of evs that are followed by a frame
FramesUpTo(evs, n) == Cardinality({k \in 1..n : GapBefore(evs, k) > eps})

\* the holds a play() of evs puts into its video: one after the frame of
\* every Event that comes more than time_resolution + eps after the last one
RECURSIVE HoldsUpTo(_, _)
HoldsUpTo(evs, n) ==
    IF n = 0 THEN <<>>
    ELSE IF GapBefore(evs, n) > time_resolution + eps
    THEN Append(HoldsUpTo(evs, n - 1),
                [frame |-> FramesUpTo(evs, n), length |-> GapBefore(evs, n)])
    ELSE HoldsUpTo(evs, n - 1)

\* C26: in a play() that records a video, an Event that comes more than
\* time_resolution + eps after the Event processed before it gets its frame
\* and, right after that frame, a hold whose length is the gap; no hold is
\* inserted for a gap of at most time_resolution + eps, and none when no
\* video is recorded.
C26_HoldAfterLongGap ==
    /\ [][EventProcessed =>
             LET dt == events[idx].time - ttlast
             IN  IF video_filename /\ dt > time_resolution + eps
                 THEN /\ vd'.frames = vd.frames + 1
                      /\ vd'.pauses = Append(vd.pauses,
                                             [frame |-> vd'.frames, length |-> dt])
                 ELSE vd'.pauses = vd.pauses]_vars
    /\ [](~video_filename => vd = NoVideo)
    /\ []((Played /\ video_filename) => vd.pauses = HoldsUpTo(applied, Len(applied)))

\* a play() with a video has returned: its two Events were three time steps
\* apart, and the video holds for three time steps after the second frame
C26_Witness ==
    /\ Played
    /\ video_filename
    /\ Len(applied) = 2
    /\ applied[1].time = 0
    /\ applied[2].time = 3 * time_resolution
    /\ vd.frames = 2
    /\ vd.pauses = <<[frame |-> 1, length |-> 3 * time_resolution]>>

\* C27: on a scheduler constructed without a total_duration, the duration
\* every play() gives its video is the time of the last Event minus the time
\* of the first Event of the sorted list that play() runs through, a second
\* play() after further bookings included.
C27_DurationOfThisPlay ==
    (pc = "loop" /\ video_filename) =>
        vd.duration = <<events[Len(events)].time - events[1].time>>

\* p0 + (pt - p0) * f, componentwise
Towards(p0, pt, f) == [ch \in 1..3 |-> RatAdd(p0[ch], RatMul(RatSub(pt[ch], p0[ch]), f))]

\* what C28 says of the payloads ps that move(pt, style) books for an object
\* at p0: linear from p0 at the first sample to pt at the last, or with
\* "quad" the square of the normalized sample index, ending at pt
InterpolatesMove(ps, p0, pt, style) ==
    LET n == Len(ps)
    IN  IF style = "quad"
        THEN /\ \A k \in 1..n : ps[k] = <<Towards(p0, pt, RatMul(Rat(k, n), Rat(k, n)))>>
             /\ ps[n] = <<pt>>
        ELSE /\ ps[1] = <<p0>>
             /\ ps[n] = <<pt>>
             /\ \A k \in 1..n : ps[k] = <<Towards(p0, pt, Rat(k - 1, n - 1))>>

\* C28: a move of one object from its position p0 to pt, booked over at
\* least two samples, books payloads that interpolate from p0 to pt: with a
\* style without "quad" the first payload is p0, the last is pt and the
\* payloads are linear in between; with "quad" the payloads follow the
\* square of the normalized sample index and end at pt.
C28_MovePayloads ==
    [][\A act \in SingleInputs, pt \in PointInputs, t \in TimeInputs,
          d \in DurationInputs, st \in MoveStyleInputs :
          (bookingMode /\ move(act, pt, t, d, st)) =>
              LET c == calls'[Len(calls')]
                  ps == [k \in 1..c.count |-> events'[c.first + k - 1].payload.vals]
              IN  (c.raised = "" /\ Len(c.acts) = 1 /\ c.count >= 2) =>
                      InterpolatesMove(ps, props[c.acts[1]].pos, pt, st)]_vars

\* C29: playing the Events that change_alpha_between(alpha1, alpha2, acts, t,
\* duration) books over at least two samples leaves every target's alpha at
\* alpha2, whatever its alpha was, also when alpha2 is greater than alpha1 or
\* than the target's alpha.
C29_AlphaReachesAlpha2 ==
    [][\A al \in AlphaInputs, acts \in ActsInputs, t \in TimeInputs, d \in DurationInputs :
          (bookingMode /\ nplays = 0 /\ change_alpha_between(al[1], al[2], acts, t, d)) =>
              LET c == calls'[Len(calls')]
              IN  (c.raised = "" /\ c.count >= 2) =>
                      \A k \in 1..Len(c.acts) :
                          Terminal(events', props)[c.acts[k]].alpha = al[2]]_vars

\* the sum of the angles in the payloads of evs
RECURSIVE SumAngles(_)
SumAngles(evs) ==
    IF Len(evs) = 0 THEN Zero
    ELSE RatAdd(evs[1].payload.vals[1][1], SumAngles(Tail(evs)))

\* the coordinate axis an axis argument names: (1, 0, 0) is the x axis
AxisOf(axis) == IF axis = "(1, 0, 0)" THEN "x" ELSE axis

\* C30: the Events that rotate(act, axis, angle, t, duration) books for one
\* object carry angle increments that sum to angle, and playing them turns
\* the object by angle about the given axis, for the axis "x" as for the
\* default axis (1, 0, 0).
C30_RotatesByAngle ==
    [][\A act \in SingleInputs, ax \in AxisInputs, an \in AngleInputs, t \in TimeInputs,
          d \in DurationInputs :
          (bookingMode /\ nplays = 0 /\ rotate(act, ax, an, t, d)) =>
              LET c == calls'[Len(calls')]
                  a == c.acts[1]
              IN  (c.raised = "" /\ Len(c.acts) = 1 /\ c.count >= 1) =>
                      /\ SumAngles(events') = an
                      /\ \A k \in 1..Len(events') : events'[k].payload.axis = ax
                      /\ Terminal(events', props)[a].rotation[AxisOf(ax)] =
                             RatAdd(props[a].rotation[AxisOf(ax)], an)]_vars

\* C34: every Event a booking-mode declaration call appends is scheduled at
\* an integer multiple of time_resolution, not before the call's quantized
\* start time and not after that start time plus the call's quantized
\* duration; so every Event of the list is at a multiple of time_resolution.
C34_EventTimesQuantized ==
    /\ [][(DeclarationCall /\ bookingMode) =>
             LET c == calls'[Len(calls')]
             IN  /\ Len(events') = Len(events) + c.count
                 /\ \A k \in 1..c.count :
                       LET e == events'[Len(events) + k]
                       IN  /\ e.time % time_resolution = 0
                           /\ c.t % time_resolution = 0
                           /\ c.t <= e.time
                           /\ e.time <= c.t + c.nsteps * time_resolution]_vars
    /\ [](\A k \in 1..Len(events) : events[k].time % time_resolution = 0)

\* a call lasting half a time step from one time step on has booked two
\* Events, at one and at two time steps
C34_Witness ==
    /\ Len(calls) = 1
    /\ Booked(calls[1])
    /\ calls[1].t_in = time_resolution
    /\ 2 * calls[1].duration_in = time_resolution
    /\ Len(events) = 2
    /\ events[1].time = time_resolution
    /\ events[2].time = 2 * time_resolution

\* a step of play() that applies the Event e
Applies(e) == pc = "loop" /\ idx <= Len(events) /\ e = events[idx] /\ applied' = Append(applied, e)

\* C35: in playback a fade_in Event sets the alpha of a target to its payload
\* only when the payload is strictly greater than the target's alpha, a
\* fade_out Event only when it is strictly smaller; otherwise the target is
\* left as it is. So a fade_in Event never lowers and a fade_out Event never
\* raises an alpha, and neither touches another object or another property.
C35_FadeGuards ==
    [][\A k \in 1..Len(events) :
          (Applies(events[k]) /\ events[k].action \in {"fade_in", "fade_out"}) =>
              LET e == events[k]
                  v == e.payload.vals[1][1]
                  due(o) == /\ InSeq(o, e.targets)
                            /\ IF e.action = "fade_in" THEN RatLess(props[o].alpha, v)
                               ELSE RatLess(v, props[o].alpha)
              IN  \A o \in ObjIds :
                      /\ props'[o] = IF due(o) THEN [props[o] EXCEPT !.alpha = v]
                                     ELSE props[o]
                      /\ e.action = "fade_in" => RatLeq(props[o].alpha, props'[o].alpha)
                      /\ e.action = "fade_out" => RatLeq(props'[o].alpha, props[o].alpha)]_vars

\* play() has applied a fade_out Event with payload 1.0 to an A of alpha
\* 0.5 and then a fade_in Event with payload 0.0: A's alpha is still 0.5
C35_Witness ==
    /\ pc = "loop"
    /\ Len(applied) = 2
    /\ applied[1].action = "fade_out"
    /\ applied[1].payload.vals[1][1] = One
    /\ applied[2].action = "fade_in"
    /\ applied[2].payload.vals[1][1] = Zero
    /\ InSeq("A", applied[1].targets)
    /\ InSeq("A", applied[2].targets)
    /\ props0["A"].alpha = Rat(1, 2)
    /\ props["A"].alpha = Rat(1, 2)

\* an exception has escaped the latest play(): play() is over without having
\* reached its interactive show
Escaped == nplays > 0 /\ pc = "idle" /\ ~interactive

\* some declaration call found the scheduler in playback mode
HasReplayed == \E i \in 1..Len(calls) : ~calls[i].booking

\* C36 as stated: once an exception has escaped play() the scheduler stays
\* in playback mode: bookingMode is false then, and from the first
\* declaration call that found it false it is false whenever play() is not
\* running, so that every later declaration call appends no Event.
C36_PlaybackModeForGood ==
    /\ Escaped => ~bookingMode
    /\ (pc = "idle" /\ HasReplayed) => ~bookingMode

\* C36 amended: an exception that escapes play() leaves bookingMode false;
\* while it is false a declaration call appends no Event, runs the playback
\* branch of the called method on the last performers with the last payload
\* and leaves the mode as it is; bookingMode becomes true again only when a
\* later play() runs to its end.
C36_PlaybackModeUntilPlayReturns ==
    /\ [](Escaped => ~bookingMode)
    /\ [][(Escaped /\ DeclarationCall) =>
             LET c == calls'[Len(calls')]
             IN  /\ ~c.booking
                 /\ c.count = 0
                 /\ events' = events
                 /\ props' = Perform(c.op, props, performers, inputvalues)
                 /\ UNCHANGED <<performers, inputvalues, bookingMode, lastT,
                                lastDuration, lastActs, objects>>
                 /\ Escaped']_vars
    /\ [][(~bookingMode /\ bookingMode') =>
             (pc = "loop" /\ idx > Len(events) /\ pc' = "idle" /\ interactive')]_vars

\* a frame of play() raised after a fade_out Event was applied; the fade_in
\* called afterwards appended nothing
C36_Witness ==
    /\ Escaped
    /\ ~bookingMode
    /\ Len(calls) = 2
    /\ calls[1].booking
    /\ calls[1].op = "fade_out"
    /\ calls[2].op = "fade_in"
    /\ ~calls[2].booking
    /\ Len(events) = calls[1].count
    /\ Len(applied) >= 1
    /\ performers # <<>>


\* the frames of the player: min_value to max_value - 1
FrameRange == min_value..(max_value - 1)

\* C37: for a player with min_value < max_value, once set_frame has been
\* called (directly, or by a timer event, a step button or the slider), the
\* current frame is one of min_value..max_value - 1, and in every state the
\* frames the user function was given are in that range.
C37_FrameStaysInRange ==
    (timer_callback_id # <<>> /\ min_value < max_value) =>
        /\ (framed => value \in FrameRange)
        /\ \A k \in 1..Len(called) : called[k] \in FrameRange

\* set_frame was asked for a frame past the range while an earlier frame was
\* shown, and gave the user function a frame
C37_Witness ==
    /\ min_value < max_value
    /\ lastEvent.op = "set_frame"
    /\ lastEvent.arg[1] > max_value
    /\ lastEvent.value \in FrameRange
    /\ framed
    /\ called # <<>>


\* C38: in every state of a player is_playing is true exactly when a timer
\* is live (timer_id is not None), and at most one timer is live.
C38_PlayingIffTimer ==
    timer_callback_id # <<>> =>
        /\ is_playing <=> timer_id # <<>>
        /\ Cardinality(timers) <= 1
        /\ timers = {timer_id[k] : k \in 1..Len(timer_id)}


\* the frames from a + 1 to b in ascending order
Ascending(a, b) == [k \in 1..(IF b > a THEN b - a ELSE 0) |-> a + k]

\* the run after the latest resume() has come to its end: the player is
\* paused on the last frame, its timer is destroyed, and the user function was
\* given every frame after the one shown at resume(), once and in order
RunEnded ==
    /\ run # <<>>
    /\ ~is_playing
    /\ timer_id = <<>>
    /\ timers = {}
    /\ value = max_value - 1
    /\ run[1].calls = Ascending(run[1].from, max_value - 1)

\* while only timer events have followed resume(), the user function has
\* been given the frames after the one shown at resume() up to the current
\* one, in ascending order, and the player plays until the run has ended
RunInOrder ==
    run # <<>> =>
        /\ ~_loop
        /\ run[1].calls = Ascending(run[1].from, value)
        /\ value <= max_value - 1 \/ run[1].calls = <<>>
        /\ is_playing \/ RunEnded

\* no handler gives the user function the frame that is already shown
NoCallOnShownFrame == \A k \in 1..Len(called') : called'[k] # value

\* once the run has ended a timer event makes no call
NoCallAfterEnd == RunEnded => (called' = <<>> \/ run' = <<>>)

\* C39: with loop=False, a player that is resumed and then receives only
\* timer events gives the user function the frames after the current one in
\* ascending order, one per timer event, up to max_value - 1; it eventually
\* pauses at frame max_value - 1 with its timer destroyed, after which no
\* call is made; and no handler calls the user function with the frame that
\* is already shown.
C39_RunsToLastFrame ==
    /\ []RunInOrder
    /\ [][NoCallOnShownFrame]_vars
    /\ [][NoCallAfterEnd]_vars
    /\ ((run # <<>>) ~> RunEnded)

\* C39, for a player that has frames (min_value < max_value): the same run
\* to the last frame.
C39_RunsToLastFrameOfRange ==
    /\ [](min_value < max_value => RunInOrder)
    /\ [][min_value < max_value => NoCallOnShownFrame]_vars
    /\ [][min_value < max_value => NoCallAfterEnd]_vars
    /\ ((run # <<>> /\ min_value < max_value) ~> RunEnded)

\* a run of timer events from before the first frame has ended on the last
\* frame after at least two calls
C39_Witness ==
    /\ RunEnded
    /\ lastEvent.op = "timer"
    /\ run[1].from = min_value - 1
    /\ Len(run[1].calls) >= 2


\* C31: after Browser.play(dt) each timer event of a browser with more than
\* one slide changes the slide shown, and every slide is eventually shown.
C31_SlidesPlayed ==
    /\ [][(BrowserTimer /\ nobs > 1) => _oldk' # _oldk]_vars
    /\ (timers # {} ~> seen = Slides)


\* the complete (source, target) pairs of a morph plotter
CompletePairs == IF Len(sources) < Len(targets) THEN Len(sources) ELSE Len(targets)

\* C32: in MorphPlotter the key "d" deletes the last landmark pair: with at
\* least one complete pair the number of complete pairs goes down by exactly
\* one (the lists keep their first pairs), an unpaired source pick is
\* discarded, nothing changes when both lists are empty, and afterwards the
\* source is pickable and the target is not.
C32_DeletesLastPair ==
    [][KeyD =>
          /\ CompletePairs >= 1 =>
                /\ CompletePairs' = CompletePairs - 1
                /\ sources' = SubSeq(sources, 1, CompletePairs - 1)
                /\ targets' = SubSeq(targets, 1, CompletePairs - 1)
          /\ Len(sources) = Len(targets) + 1 => Len(sources') = Len(targets')
          /\ (sources = <<>> /\ targets = <<>>) =>
                UNCHANGED <<sources, targets, source_pickable, target_pickable,
                            warped, msg0, msg1>>
          /\ source_pickable'
          /\ ~target_pickable']_vars

\* "d" was pressed with two complete pairs and an unpaired source pick: one
\* complete pair is left and the source can be picked again
C32_Witness ==
    /\ lastEvent.op = "d"
    /\ lastEvent.arg = <<3, 2>>
    /\ Len(sources) = 1
    /\ Len(targets) = 1
    /\ source_pickable
    /\ ~target_pickable


\* C33: in MorphByLandmarkPlotter the key "d" with n >= 1 point pairs
\* deletes the last pair and leaves n - 1 sources and n - 1 targets; with no
\* points it reports that there is nothing to delete and changes nothing.
C33_DeletesLastPointPair ==
    [][LandmarkKeyD =>
          /\ (Len(sources) >= 1 /\ Len(targets) = Len(sources)) =>
                /\ sources' = SubSeq(sources, 1, Len(sources) - 1)
                /\ targets' = SubSeq(targets, 1, Len(targets) - 1)
          /\ (sources = <<>> /\ targets = <<>>) =>
                /\ status' = "No points to delete."
                /\ UNCHANGED <<sources, targets, _sources, vsources, vtargets,
                               current_pid>>]_vars

=============================================================================
